---- MODULE Spec2Model ----
(***************************************************************************)
(* A model of the spatial-chat widgets of karunakaruna/chat: the spatial   *)
(* store with its coherence sweep (App.svelte, Game.svelte) and the trade  *)
(* records (the App variant kept in stores/index.ts and Trade.svelte).     *)
(*                                                                         *)
(* Conventions.                                                            *)
(*  - A JavaScript object whose keys are added over time (the spatial      *)
(*    store, a trade's rulesAccepted) is a sequence of entries in          *)
(*    insertion order, which is the order `for ... in`, Object.values and  *)
(*    the spread operator follow.                                          *)
(*  - A JavaScript record is a TLA+ record; a property that is missing or  *)
(*    holds `undefined` is a field that is absent from the record.         *)
(*  - Date.now() is the variable `now`, in milliseconds.  The environment  *)
(*    advances it (Tick), also while a handler that reads it twice runs.   *)
(*  - `currentUser` is the component's `user` (its id, or NoUser for     *)
(*    null).                                                               *)
(*  - `threw` names the exception the last handler raised ("" for none),   *)
(*    and `sweepReads` lists what Date.now() returned to it, iteration by  *)
(*    iteration, when that handler was the coherence sweep.                *)
(***************************************************************************)
EXTENDS Integers, Sequences, FiniteSets, TLC

VARIABLES now, ticks, spatialStore, activeConnections, sweepReads, threw,
          activeTrades, tradeStore,
          activeBeacons, beaconStore,
          clickRings, indexClickRings, gameClickRings, ringTimeouts, ringSweepDue,
          visualStore, connectedUsers,
          mounted, gameMounted, animationFrame, listeners, frameCount, lastFpsUpdate, fps,
          currentUser, users, messages, doc, ready, connectionError,
          hudStore, moveTimeouts, contextMenu,
          initStage, changeListener, redirected,
          usernames, alerts,
          lastCall,
          keyforge, mouseDistance,
          debugTimeline, eventsLogged,
          text, chat

clockVars   == <<now, ticks>>
spatialVars == <<spatialStore, activeConnections, sweepReads>>
tradeVars   == <<activeTrades, tradeStore>>
beaconVars  == <<activeBeacons, beaconStore>>
ringVars    == <<clickRings, indexClickRings, gameClickRings, ringTimeouts, ringSweepDue>>
visualVars  == <<visualStore, connectedUsers>>
lifeVars    == <<mounted, gameMounted, animationFrame, listeners>>
fpsVars     == <<frameCount, lastFpsUpdate, fps>>
docVars     == <<currentUser, users, messages, doc, ready, connectionError>>
hudVars     == <<hudStore, moveTimeouts, contextMenu>>
initVars    == <<initStage, changeListener, redirected>>
authVars    == <<usernames, alerts>>
mathVars    == <<lastCall>>
widgetVars  == <<keyforge, mouseDistance>>
debugVars   == <<debugTimeline, eventsLogged>>
chatVars    == <<text, chat>>
extVars     == <<hudVars, initVars, authVars, mathVars, widgetVars, debugVars, chatVars>>
restVars    == <<beaconVars, ringVars, visualVars, lifeVars, fpsVars, docVars, extVars>>
vars        == <<now, ticks, spatialStore, activeConnections, sweepReads, threw,
                 activeTrades, tradeStore,
                 activeBeacons, beaconStore,
                 clickRings, indexClickRings, gameClickRings, ringTimeouts, ringSweepDue,
                 visualStore, connectedUsers,
                 mounted, gameMounted, animationFrame, listeners, frameCount, lastFpsUpdate, fps,
                 currentUser, users, messages, doc, ready, connectionError,
                 hudStore, moveTimeouts, contextMenu,
                 initStage, changeListener, redirected,
                 usernames, alerts,
                 lastCall,
                 keyforge, mouseDistance,
                 debugTimeline, eventsLogged,
                 text, chat>>

(***************************************************************************)
(* Bounds of the model and the program's constants.                        *)
(***************************************************************************)
\* How many times the clock is advanced in one behaviour.
MaxTicks == 3

\* App.svelte:419  const COHERENCE_TIMEOUT = 15 * 60 * 1000
COHERENCE_TIMEOUT == 900000

\* Game.svelte (part_004:75): the literal 60000 of its isUserCohered
GAME_TIMEOUT == 60000

\* The user ids the model draws from (crypto.randomUUID() values).
UserIds == {"u1", "u2"}

\* The amounts by which one Tick advances the clock: one millisecond, and
\* one millisecond less than the timeout, so that an idle time of
\* timeout - 1, timeout and timeout + 1 is reached.
TickSteps == {1, COHERENCE_TIMEOUT - 1}

\* How many times the clock is advanced in one behaviour of the trades.
MaxTradeTicks == 1

\* How many trades are opened in one behaviour, over both trade stores.
MaxTrades == 1

\* Trade.svelte (part_003:18,19,36): the instant "2025-01-12T15:10:55-08:00"
\* that it writes into createdAt and updatedAt, on the scale of `now`: a fixed
\* instant before the clock's first value.
HARDCODED_STAMP == -1

\* `user` when nobody is logged in (null)
NoUser == "null"

\* The positions of a trade window and of a pointer over it.
TradePositions == {[x |-> 1, y |-> 1]}

\* Pointer offsets from the viewport centre that Game.handleMouseMove sees.
MouseOffsets == {<<0, -2>>}

\* How many beacons are created in one behaviour, over both beacon stores.
MaxBeacons == 2

\* How many times the clock is advanced in one behaviour of the beacons.
MaxBeaconTicks == 2

\* Beacon.svelte:24: the instant "2025-01-12T15:02:21-08:00" that it writes
\* into createdAt, on the scale of `now`: a fixed instant before the clock's
\* first value.
BEACON_STAMP == -2

\* The positions a beacon is set at.
BeaconPositions == {[x |-> 1, y |-> 1]}

\* stores/index.ts:161-165: the period of the click-ring sweep, in ms
RING_SWEEP_PERIOD == 1000

\* How many click rings the three ring stores hold together at one time.
MaxRings == 2

\* How many times the clock is advanced in one behaviour of the click rings.
MaxRingTicks == 3

\* App.svelte:539 and stores/index.ts:157: the delay of the removal timeout
RING_TIMEOUT == 500

\* stores/index.ts:163: the age at which the sweep drops a ring
RING_MAX_AGE == 1000

\* The amounts by which the clock advances in a behaviour of the click rings.
RingTickSteps == {1, RING_TIMEOUT - 1, RING_TIMEOUT}

\* The positions of a click.
ClickPositions == {[x |-> 1, y |-> 1]}

\* How many times the clock is advanced in one behaviour of the component.
MaxAppTicks == 1

\* How many frames are counted between two updates of the FPS readout.
MaxFrames == 2

\* App.svelte:217: the time between two updates of the FPS readout, in ms
FPS_PERIOD == 1000

\* The amounts by which the clock advances in a behaviour of the component.
AppTickSteps == {FPS_PERIOD + 1}

\* The user ids a behaviour of the component draws from.
AppUserIds == {"u1"}

\* The id of cloudAuthUser, the account the verifier returned.
CloudAuthUser == "cloud"

\* What the username field holds when the form is submitted.
Usernames == {"", "ann", " bob"}

\* The polar targets updateTargetPosition is given.
TargetPolars == {[r |-> 2, theta |-> 1]}

\* How many messages the list and the document hold each.
MaxMessages == 2

\* How many times the clock is advanced in one behaviour of the document.
MaxDocTicks == 1

\* The ids of the users other peers add to the document.
DocUserIds == {CloudAuthUser, "u2"}

\* What the chat input holds when the form is submitted.
Texts == {"", "hi"}

\* App.svelte:141  the delay of the timeout handleMouseMove sets
MOVE_TIMEOUT == 1000

\* How many timeouts of handleMouseMove are pending at a time.
MaxPendingMoves == 2

\* How many times the clock is advanced in one behaviour of the interactions.
MaxHudTicks == 2

\* The amounts by which the clock advances there.
HudTickSteps == {RING_TIMEOUT}

\* The pointer positions handleMouseMove sees, from the centre of the view.
MousePoints == {[x |-> 3, y |-> 0]}

\* utils.ts:78  Math.PI, in the unit the model measures angles in (pi/8)
PI == 8

\* How many turns the angles given to normalizeAngle go up to, either way.
MaxTurns == 3

\* A large multiple of a turn, in turns.
ManyTurns == 100

\* The angles normalizeAngle is given.
Angles == ((-MaxTurns * 2 * PI)..(MaxTurns * 2 * PI))
             \cup {ManyTurns * 2 * PI, -ManyTurns * 2 * PI, ManyTurns * 2 * PI + 1}

\* The angles, the radii and the factors lerpPolar is given.
LerpAngles == {-PI, -PI + 1, 0, PI - 1, PI, 3 * PI}

LerpRadii == {[start |-> 0, end |-> 2]}

LerpFactors == {[num |-> 0, den |-> 1], [num |-> 1, den |-> 2], [num |-> 1, den |-> 1]}

\* The largest radius polarToCartesian is given.
MaxRadius == 2

\* The angles polarToCartesian is given: the multiples of pi/2 of two turns.
AxisAngles == {k * (PI \div 2) : k \in -4..4}

\* How many items the Keyforge widget holds in one behaviour.
MaxItems == 3

\* How many times an item of it is moved in one behaviour.
MaxDrags == 2

\* The pointer positions the Keyforge widget sees.
ForgePoints == {[x |-> 1, y |-> 1], [x |-> 2, y |-> 1]}

\* Where createLock puts the key, from the lock.
KeyOffsets == {[x |-> 150, y |-> 0]}

\* How far the pointer moves over the mouse-distance widget in one behaviour.
MaxMovement == 8

\* The pointer positions the mouse-distance widget sees.
MotionPoints == {[x |-> 3, y |-> 0], [x |-> 3, y |-> 4], [x |-> 0, y |-> 4]}

\* stores/index.ts:872  events.slice(-99)
TIMELINE_KEEP == 99

\* How many events are logged in one behaviour.
MaxLogged == 102

\* How many times the clock is advanced in one behaviour of the socket messages.
MaxSocketTicks == 2

MaxChatTicks == 1

\* components/Chat.svelte:21  createdAt of every message of the component
CHAT_STAMP == "2025-01-12T15:04:42-08:00"

\* The texts of the chat inputs, blank ones and one to trim among them.
ChatTexts == {"", " ", "hi", " hi"}

\* The texts of the name input of UserAuth.svelte.
AuthInputs == {"", " ", "Dee"}

(***************************************************************************)
(* JavaScript objects.                                                     *)
(***************************************************************************)
\* obj[key] is defined
Has(obj, key) == \E i \in 1..Len(obj) : obj[i].id = key

\* obj[key], for a key that is defined
Get(obj, key) == obj[CHOOSE i \in 1..Len(obj) : obj[i].id = key].st

\* { ...obj, [key]: value }: an existing key keeps its place, a new one is appended
Put(obj, key, value) ==
    IF Has(obj, key)
    THEN [i \in 1..Len(obj) |-> IF obj[i].id = key THEN [id |-> key, st |-> value] ELSE obj[i]]
    ELSE Append(obj, [id |-> key, st |-> value])

\* Object.keys(obj) as a set
Keys(obj) == {obj[i].id : i \in 1..Len(obj)}

\* { ...a, ...b } for two records
Spread(a, b) ==
    [k \in (DOMAIN a) \cup (DOMAIN b) |-> IF k \in DOMAIN b THEN b[k] ELSE a[k]]

\* the record without property k (k: undefined)
Without(rec, k) == [f \in (DOMAIN rec) \ {k} |-> rec[f]]

\* the empty record: {} and { ...undefined }
EmptyRec == [k \in {} |-> TRUE]

\* { ...obj[key] }: spreading undefined yields {}
SpreadOf(obj, key) == IF Has(obj, key) THEN Get(obj, key) ELSE EmptyRec

\* rec.k read as a condition: an absent property is undefined, which is falsy
Truthy(rec, k) == k \in DOMAIN rec /\ rec[k]

\* t - rec.lastActive < limit; undefined makes the difference NaN and the test false
ActiveWithin(rec, t, limit) == "lastActive" \in DOMAIN rec /\ t - rec.lastActive < limit

(***************************************************************************)
(* utils.ts                                                                *)
(***************************************************************************)
\* Math.sqrt on the perfect squares the model uses
Sqrt(n) == CHOOSE r \in 0..n : r * r = n

\* Math.atan2(y, x) on the axes
Atan2(y, x) ==
    CASE y = 0 /\ x >= 0 -> 0
      [] x = 0 /\ y > 0  -> PI \div 2
      [] y = 0 /\ x < 0  -> PI
      [] x = 0 /\ y < 0  -> -(PI \div 2)

cartesianToPolar(x, y) == [r |-> Sqrt(x * x + y * y), theta |-> Atan2(y, x)]

\* Math.cos and Math.sin on the multiples of pi/2
Cos(theta) ==
    CASE theta % (2 * PI) = 0            -> 1
      [] theta % (2 * PI) = PI           -> -1
      [] theta % PI = PI \div 2          -> 0

Sin(theta) ==
    CASE theta % PI = 0                  -> 0
      [] theta % (2 * PI) = PI \div 2    -> 1
      [] theta % (2 * PI) = 3 * (PI \div 2) -> -1

\* polarToCartesian with the sine and the cosine exchanged
polarToCartesianSwapped(r, theta) == [x |-> r * Sin(theta), y |-> r * Cos(theta)]

polarToCartesian(r, theta) == [x |-> r * Cos(theta), y |-> r * Sin(theta)]

RECURSIVE normalizeAngle(_)
normalizeAngle(angle) ==
    IF angle > PI THEN normalizeAngle(angle - 2 * PI)
    ELSE IF angle < -PI THEN normalizeAngle(angle + 2 * PI)
    ELSE angle

(***************************************************************************)
(* App.svelte lerpPolar.  The factor t is a fraction, a record of num and   *)
(* den, and so are the r and the theta of the result.                       *)
(***************************************************************************)
\* the difference of the angles as it is, not wrapped
ShortestDeltaUnwrapped(startTheta, endTheta) == endTheta - startTheta

\* App.svelte:108-110  deltaTheta, wrapped by one turn at most
ShortestDelta(startTheta, endTheta) ==
    LET deltaTheta == endTheta - startTheta
        lowered    == IF deltaTheta > PI THEN deltaTheta - 2 * PI ELSE deltaTheta
    IN  IF lowered < -PI THEN lowered + 2 * PI ELSE lowered

lerpPolar(start, end, t) ==
    LET startTheta == normalizeAngle(start.theta)
        endTheta   == normalizeAngle(end.theta)
        deltaTheta == ShortestDelta(startTheta, endTheta)
    IN  [r     |-> [num |-> start.r * (t.den - t.num) + end.r * t.num, den |-> t.den],
         theta |-> [num |-> startTheta * t.den + deltaTheta * t.num, den |-> t.den]]

(***************************************************************************)
(* The spatial store.                                                      *)
(***************************************************************************)
\* the record initUserSpatial stores
InitialSpatial ==
    [position |-> [x |-> 0, y |-> 0], lastActive |-> now,
     connected |-> FALSE, cohered |-> FALSE]

\* App.svelte initUserSpatial(userId)
initUserSpatial(userId) ==
    /\ spatialStore' = Put(spatialStore, userId, InitialSpatial)
    /\ threw' = ""
    /\ sweepReads' = <<>>
    /\ UNCHANGED <<clockVars, activeConnections, tradeVars>>
    /\ UNCHANGED restVars

\* The record handleWebSocketConnection builds for state[userId].  With
\* connected false the && short-circuits and state[userId].lastActive is not
\* read, so a user without an entry gets one with two properties only.
ConnectionRecord(userId, connected) ==
    Spread(SpreadOf(spatialStore, userId),
           [connected |-> connected,
            cohered   |-> connected
                          /\ ActiveWithin(Get(spatialStore, userId), now, COHERENCE_TIMEOUT)])

\* App.svelte handleWebSocketConnection(userId, connected)
handleWebSocketConnection(userId, connected) ==
    /\ activeConnections' = IF connected THEN activeConnections \cup {userId}
                                         ELSE activeConnections \ {userId}
    /\ IF connected /\ ~Has(spatialStore, userId)
       THEN \* state[userId].lastActive of undefined
            /\ threw' = "TypeError"
            /\ UNCHANGED spatialStore
       ELSE /\ threw' = ""
            /\ spatialStore' = Put(spatialStore, userId, ConnectionRecord(userId, connected))
    /\ sweepReads' = <<>>
    /\ UNCHANGED <<clockVars, tradeVars>>
    /\ UNCHANGED restVars

\* The record updateUserActivity builds for state[userId]:
\* cohered: state[userId].connected && true
ActivityRecord(userId) ==
    LET old == Get(spatialStore, userId)
        new == Spread(old, [lastActive |-> now])
    IN  IF "connected" \in DOMAIN old
        THEN Spread(new, [cohered |-> old.connected])
        ELSE Without(new, "cohered")

\* App.svelte updateUserActivity(userId)
updateUserActivity(userId) ==
    /\ IF ~Has(spatialStore, userId)
       THEN \* state[userId].connected of undefined
            /\ threw' = "TypeError"
            /\ UNCHANGED spatialStore
       ELSE /\ threw' = ""
            /\ spatialStore' = Put(spatialStore, userId, ActivityRecord(userId))
    /\ sweepReads' = <<>>
    /\ UNCHANGED <<clockVars, activeConnections, tradeVars>>
    /\ UNCHANGED restVars

\* SweepOne with the timeout compared by <= (off by one millisecond)
SweepOneInclusive(spatial, read) ==
    LET isActive == "lastActive" \in DOMAIN spatial
                    /\ read - spatial.lastActive <= COHERENCE_TIMEOUT
        marked   == Spread(spatial, [cohered |-> isActive])
    IN  IF isActive THEN marked
        ELSE Spread(marked, [position |-> [r |-> 0, theta |-> 0]])

\* SweepOne without the reset of the position
SweepOneNoReset(spatial, read) ==
    Spread(spatial, [cohered |-> ActiveWithin(spatial, read, COHERENCE_TIMEOUT)])

\* SweepOne that resets the position of every user
SweepOneResettingAll(spatial, read) ==
    Spread(spatial, [cohered |-> ActiveWithin(spatial, read, COHERENCE_TIMEOUT),
                     position |-> [r |-> 0, theta |-> 0]])

\* One iteration of the sweep's loop, with `read` the value Date.now() returns in it
SweepOne(spatial, read) ==
    LET isActive == ActiveWithin(spatial, read, COHERENCE_TIMEOUT)
        marked   == Spread(spatial, [cohered |-> isActive])
    IN  IF isActive THEN marked
        ELSE Spread(marked, [position |-> [r |-> 0, theta |-> 0]])

\* The value Date.now() returns in the i-th iteration of a sweep during which
\* the clock advances by `drift` after `k` iterations
ReadAt(i, k, drift) == IF i <= k THEN now ELSE now + drift

\* App.svelte: the callback of setInterval(..., 1000).  Date.now() is called
\* once per user, inside the loop.
CoherenceSweep(k, drift) ==
    /\ ticks + drift <= MaxTicks
    /\ spatialStore' = [i \in 1..Len(spatialStore) |->
                          [id |-> spatialStore[i].id,
                           st |-> SweepOne(spatialStore[i].st, ReadAt(i, k, drift))]]
    /\ sweepReads' = [i \in 1..Len(spatialStore) |-> ReadAt(i, k, drift)]
    /\ now' = now + drift
    /\ ticks' = ticks + drift
    /\ threw' = ""
    /\ UNCHANGED <<activeConnections, tradeVars>>
    /\ UNCHANGED restVars

\* Game.svelte handleMouseMove, for the component's user and a pointer offset
GameHandleMouseMove(userId, x, y) ==
    /\ spatialStore' = Put(spatialStore, userId,
                           Spread(SpreadOf(spatialStore, userId),
                                  [position |-> cartesianToPolar(x, y),
                                   lastActive |-> now, cohered |-> TRUE]))
    /\ threw' = ""
    /\ sweepReads' = <<>>
    /\ UNCHANGED <<clockVars, activeConnections, tradeVars>>
    /\ UNCHANGED restVars

\* The clock advances between two handlers.
Tick(d) ==
    /\ ticks < MaxTicks
    /\ now' = now + d
    /\ ticks' = ticks + 1
    /\ UNCHANGED <<spatialVars, threw, tradeVars>>
    /\ UNCHANGED restVars

\* App.svelte isUserCohered(user)
isUserCohered(userId) ==
    IF ~Has(spatialStore, userId) THEN FALSE
    ELSE /\ Truthy(Get(spatialStore, userId), "connected")
         /\ ActiveWithin(Get(spatialStore, userId), now, COHERENCE_TIMEOUT)

\* userDisplayClass with the test for a missing entry inverted
userDisplayClassInverted(userId) ==
    IF Has(spatialStore, userId) /\ ~Truthy(Get(spatialStore, userId), "cohered")
    THEN "decohered" ELSE "cohered"

\* App.svelte userDisplayClass(userId)
userDisplayClass(userId) ==
    IF ~Has(spatialStore, userId) THEN "decohered"
    ELSE IF Truthy(Get(spatialStore, userId), "cohered") THEN "cohered" ELSE "decohered"

\* Game.svelte isUserCohered(user)
GameIsUserCohered(userId) ==
    IF ~Has(spatialStore, userId) THEN FALSE
    ELSE ActiveWithin(Get(spatialStore, userId), now, GAME_TIMEOUT)

(***************************************************************************)
(* The values the components' other state starts with.                     *)
(***************************************************************************)
\* App.svelte:74-76  the mouse fields of hudStore
InitialHud ==
    [mouseCartesian |-> [x |-> 0, y |-> 0], mousePolar |-> [r |-> 0, theta |-> 0]]

\* stores/index.ts:979-984  let contextMenu = { visible: false, ... }
InitialContextMenu == [visible |-> FALSE, x |-> 0, y |-> 0, targetUserId |-> "null"]

\* KeyforgeWidget (part_000:28-31): its useState values, with the calls its
\* two callback props have received, each call being the item it was given;
\* the id 0 and the menu that is not open stand for null
InitialKeyforge ==
    [items |-> <<>>, activeDraggable |-> 0, contextMenu |-> [open |-> FALSE],
     statusMessage |-> "", statusTimeouts |-> 0,
     onItemCreate |-> <<>>, onItemUpdate |-> <<>>]

\* MouseDistanceWidget (part_002:175-186): its state variables, with its two
\* interval handles and its window listener (TRUE while set), and the
\* callback of it that ran last; a fraction is a record of num and den
InitialMouseDistance ==
    [state |-> "created", motionInterval |-> FALSE, averageInterval |-> FALSE,
     listener |-> FALSE, ran |-> "",
     lastX |-> 0, lastY |-> 0, lastMotion |-> 0, cumulativeMovement |-> 0,
     deltaMotion |-> 0, displayedMotion |-> [num |-> 0, den |-> 1],
     motionHistory |-> <<>>, averageMotion |-> [num |-> 0, den |-> 1]]

\* components/Chat.svelte:7-9  the props of the component
InitialChat == [user |-> NoUser, messages |-> <<>>, text |-> ""]

(***************************************************************************)
(* The specification of the spatial store.                                 *)
(***************************************************************************)
Init ==
    /\ now = 0
    /\ ticks = 0
    /\ spatialStore = <<>>
    /\ activeConnections = {}
    /\ sweepReads = <<>>
    /\ threw = ""
    /\ activeTrades = <<>>
    /\ tradeStore = <<>>
    /\ activeBeacons = <<>>
    /\ beaconStore = <<>>
    /\ clickRings = <<>>
    /\ indexClickRings = <<>>
    /\ gameClickRings = <<>>
    /\ ringTimeouts = <<>>
    /\ ringSweepDue = RING_SWEEP_PERIOD
    /\ visualStore = <<>>
    /\ connectedUsers = <<>>
    /\ mounted = "created"
    /\ gameMounted = "created"
    /\ animationFrame = "null"
    /\ listeners = {}
    /\ frameCount = 0
    /\ lastFpsUpdate = 0
    /\ fps = 0
    /\ currentUser = NoUser
    /\ users = <<>>
    /\ messages = <<>>
    /\ doc = [users |-> <<>>, messages |-> <<>>]
    /\ ready = FALSE
    /\ connectionError = FALSE
    /\ hudStore = InitialHud
    /\ moveTimeouts = <<>>
    /\ contextMenu = InitialContextMenu
    /\ initStage = "auth"
    /\ changeListener = FALSE
    /\ redirected = FALSE
    /\ usernames = <<>>
    /\ alerts = 0
    /\ lastCall = [fn |-> "none"]
    /\ text = ""
    /\ chat = InitialChat
    /\ keyforge = InitialKeyforge
    /\ mouseDistance = InitialMouseDistance
    /\ debugTimeline = <<>>
    /\ eventsLogged = 0

Next ==
    \/ \E d \in TickSteps : Tick(d)
    \/ \E userId \in UserIds : ~Has(spatialStore, userId) /\ initUserSpatial(userId)
    \/ \E userId \in UserIds, connected \in BOOLEAN : handleWebSocketConnection(userId, connected)
    \/ \E userId \in UserIds : updateUserActivity(userId)
    \/ \E k \in 0..Len(spatialStore), drift \in {0, 1} :
          (drift = 0 => k = Len(spatialStore)) /\ CoherenceSweep(k, drift)
    \/ \E userId \in UserIds, m \in MouseOffsets : GameHandleMouseMove(userId, m[1], m[2])

Spec == Init /\ [][Next]_vars

(***************************************************************************)
(* Trades.  Two variants keep trade records, each in a store of its own:   *)
(* the App variant in stores/index.ts keeps the Map activeTrades, and      *)
(* Trade.svelte keeps tradeStore.  A handler runs for the component's      *)
(* current user, which is the `user` it is given here; the user changes    *)
(* between handlers when loadDocument replaces it.  A handler that the     *)
(* markup calls is enabled when the markup shows its control; a function   *)
(* that nothing calls takes any arguments.                                 *)
(***************************************************************************)
\* crypto.randomUUID(): an id that no trade has yet
NextTradeId == Len(activeTrades) + Len(tradeStore) + 1

\* stores/index.ts initiateTrade(position, targetUserId); new Date() is `now`
initiateTrade(user, position, targetUserId) ==
    /\ NextTradeId <= MaxTrades
    /\ activeTrades' =
          Put(activeTrades, NextTradeId,
              [id |-> NextTradeId, initiatorId |-> user, acceptorId |-> targetUserId,
               state |-> "invited", position |-> position, mousePositions |-> <<>>,
               rulesAccepted |-> Put(Put(<<>>, user, FALSE), targetUserId, FALSE),
               createdAt |-> now, updatedAt |-> now])
    /\ threw' = ""
    /\ UNCHANGED <<clockVars, spatialVars, tradeStore>>
    /\ UNCHANGED restVars

\* stores/index.ts updateTradeMousePosition(tradeId, position)
updateTradeMousePosition(user, tradeId, position) ==
    /\ IF Has(activeTrades, tradeId)
       THEN LET trade == Get(activeTrades, tradeId)
            IN  activeTrades' =
                   Put(activeTrades, tradeId,
                       Spread(trade, [mousePositions |-> Put(trade.mousePositions, user, position),
                                      updatedAt |-> now]))
       ELSE UNCHANGED activeTrades
    /\ threw' = ""
    /\ UNCHANGED <<clockVars, spatialVars, tradeStore>>
    /\ UNCHANGED restVars

\* Object.values(rulesAccepted).every(accepted => accepted)
AllAccepted(rulesAccepted) == \A i \in 1..Len(rulesAccepted) : rulesAccepted[i].st

\* the trade acceptTradeRules leaves in the Map
AcceptedTrade(trade, user) ==
    LET accepted == Put(trade.rulesAccepted, user, TRUE)
    IN  Spread(trade, [rulesAccepted |-> accepted,
                       updatedAt     |-> now,
                       state         |-> IF AllAccepted(accepted) THEN "trading" ELSE trade.state])

\* stores/index.ts acceptTradeRules(tradeId)
acceptTradeRules(user, tradeId) ==
    /\ IF Has(activeTrades, tradeId)
       THEN activeTrades' = Put(activeTrades, tradeId,
                                AcceptedTrade(Get(activeTrades, tradeId), user))
       ELSE UNCHANGED activeTrades
    /\ threw' = ""
    /\ UNCHANGED <<clockVars, spatialVars, tradeStore>>
    /\ UNCHANGED restVars

\* stores/index.ts: the click on "Cancel Trade" calls cancelTrade(trade.id),
\* and no cancelTrade is defined: the call raises a ReferenceError.
cancelTrade(user, tradeId) ==
    /\ threw' = "ReferenceError"
    /\ UNCHANGED <<clockVars, spatialVars, tradeVars>>
    /\ UNCHANGED restVars

\* stores/index.ts markup: the trade window is rendered for the two parties
TradeWindowShown(trade, user) == trade.initiatorId = user \/ trade.acceptorId = user

\* stores/index.ts markup: the "Accept Rules" button
AcceptRulesShown(trade, user) ==
    /\ TradeWindowShown(trade, user)
    /\ ~(Has(trade.rulesAccepted, user) /\ Get(trade.rulesAccepted, user))

\* Trade.svelte initiateTrade(position, targetUserId); both timestamps are
\* the literal "2025-01-12T15:10:55-08:00"
Trade_initiateTrade(user, position, targetUserId) ==
    /\ NextTradeId <= MaxTrades
    /\ IF user = NoUser
       THEN UNCHANGED tradeStore
       ELSE tradeStore' =
               Put(tradeStore, NextTradeId,
                   [id |-> NextTradeId, initiatorId |-> user, acceptorId |-> targetUserId,
                    state |-> "invited", position |-> position, mousePositions |-> <<>>,
                    rulesAccepted |-> <<>>,
                    createdAt |-> HARDCODED_STAMP, updatedAt |-> HARDCODED_STAMP])
    /\ threw' = ""
    /\ UNCHANGED <<clockVars, spatialVars, activeTrades>>
    /\ UNCHANGED restVars

\* Trade.svelte updateTradeState(tradeId, newState)
updateTradeState(tradeId, newState) ==
    /\ IF Has(tradeStore, tradeId)
       THEN tradeStore' = Put(tradeStore, tradeId,
                              Spread(Get(tradeStore, tradeId),
                                     [state |-> newState, updatedAt |-> HARDCODED_STAMP]))
       ELSE UNCHANGED tradeStore
    /\ threw' = ""
    /\ UNCHANGED <<clockVars, spatialVars, activeTrades>>
    /\ UNCHANGED restVars

\* Trade.svelte updateMousePosition(tradeId, userId, position)
updateMousePosition(tradeId, userId, position) ==
    /\ IF Has(tradeStore, tradeId)
       THEN LET trade == Get(tradeStore, tradeId)
            IN  tradeStore' =
                   Put(tradeStore, tradeId,
                       Spread(trade, [mousePositions |->
                                         Put(trade.mousePositions, userId, position)]))
       ELSE UNCHANGED tradeStore
    /\ threw' = ""
    /\ UNCHANGED <<clockVars, spatialVars, activeTrades>>
    /\ UNCHANGED restVars

\* TradeActionsShown without the test of the trade's state
TradeActionsShownInAnyState(trade, user) ==
    /\ trade.initiatorId = user \/ trade.acceptorId = user
    /\ trade.acceptorId = user

\* Trade.svelte markup: the Accept and Decline buttons
TradeActionsShown(trade, user) ==
    /\ trade.initiatorId = user \/ trade.acceptorId = user
    /\ trade.state = "invited"
    /\ trade.acceptorId = user

\* What one user can do to the trades.
TradeStepBy(user) ==
    \/ \E position \in TradePositions, targetUserId \in UserIds \ {user} :
          initiateTrade(user, position, targetUserId)
    \/ \E i \in 1..Len(activeTrades), position \in TradePositions :
          /\ TradeWindowShown(activeTrades[i].st, user)
          /\ updateTradeMousePosition(user, activeTrades[i].id, position)
    \/ \E i \in 1..Len(activeTrades) :
          /\ AcceptRulesShown(activeTrades[i].st, user)
          /\ acceptTradeRules(user, activeTrades[i].id)
    \/ \E i \in 1..Len(activeTrades) :
          /\ TradeWindowShown(activeTrades[i].st, user)
          /\ cancelTrade(user, activeTrades[i].id)
    \/ \E position \in TradePositions, targetUserId \in UserIds \ {user} :
          Trade_initiateTrade(user, position, targetUserId)
    \/ \E i \in 1..Len(tradeStore), newState \in {"rules_review", "cancelled"} :
          /\ TradeActionsShown(tradeStore[i].st, user)
          /\ updateTradeState(tradeStore[i].id, newState)

TradeNext ==
    \/ ticks < MaxTradeTicks /\ Tick(1)
    \/ \E user \in UserIds : TradeStepBy(user)
    \/ \E position \in TradePositions, targetUserId \in UserIds :
          Trade_initiateTrade(NoUser, position, targetUserId)
    \/ \E tradeId \in 1..MaxTrades, userId \in UserIds, position \in TradePositions :
          updateMousePosition(tradeId, userId, position)

TradeSpec == Init /\ [][TradeNext]_vars

(***************************************************************************)
(* Beacons.  The App variant in stores/index.ts keeps the Map              *)
(* activeBeacons, and Beacon.svelte keeps beaconStore.  stores/index.ts    *)
(* duplicates the declarations of App.svelte (user, users, messages, the   *)
(* stores), and its handlers act here on the state of that one component.  *)
(***************************************************************************)
\* crypto.randomUUID(): an id that no beacon has yet
NextBeaconId == Len(activeBeacons) + Len(beaconStore) + 1

\* crypto.randomUUID(): an id that no message has yet
RECURSIVE MaxMessageId(_)
MaxMessageId(list) ==
    IF list = <<>> THEN 0
    ELSE LET rest == MaxMessageId(Tail(list))
         IN  IF Head(list).id > rest THEN Head(list).id ELSE rest

NextMessageId ==
    LET a == MaxMessageId(messages)
        b == MaxMessageId(doc.messages)
    IN  1 + (IF a > b THEN a ELSE b)

\* array.includes(x)
Includes(array, x) == \E i \in 1..Len(array) : array[i] = x

\* BeaconRecord with active: false
BeaconRecordInactive(id, creatorId, position, createdAt) ==
    [id |-> id, creatorId |-> creatorId, position |-> position,
     createdAt |-> createdAt, active |-> FALSE, participants |-> <<creatorId>>]

\* the beacon both createBeacon functions build
BeaconRecord(id, creatorId, position, createdAt) ==
    [id |-> id, creatorId |-> creatorId, position |-> position,
     createdAt |-> createdAt, active |-> TRUE, participants |-> <<creatorId>>]

\* the message sendMessage(content) appends for the user u
ChatMessage(u, content) ==
    [id |-> NextMessageId, userId |-> u, text |-> content, createdAt |-> now]

\* events.slice(-n)
SliceLast(events, n) ==
    IF Len(events) <= n THEN events
    ELSE SubSeq(events, Len(events) - n + 1, Len(events))

\* the timeline that keeps every event
LoggedKeepingAll(events, type, message) ==
    Append(events, [id |-> eventsLogged + 1, type |-> type, message |-> message,
                    timestamp |-> now])

\* stores/index.ts logDebug(type, message): the timeline it stores.  The id
\* of an event, a crypto.randomUUID(), is the number of the call.
Logged(events, type, message) ==
    Append(SliceLast(events, TIMELINE_KEEP),
           [id |-> eventsLogged + 1, type |-> type, message |-> message,
            timestamp |-> now])

\* a call of logDebug(type, message)
logDebug(type, message) ==
    /\ eventsLogged < MaxLogged
    /\ debugTimeline' = Logged(debugTimeline, type, message)
    /\ eventsLogged' = eventsLogged + 1
    /\ UNCHANGED <<clockVars, spatialVars, threw, tradeVars, beaconVars, ringVars,
                   visualVars, lifeVars, fpsVars, docVars,
                   hudVars, initVars, authVars, mathVars, widgetVars, chatVars>>

\* stores/index.ts createBeacon(position): the beacon is stored and logged,
\* sendMessage appends the chat line, and its ws.send raises a ReferenceError
\* (no ws is declared), which ends sendMessage and createBeacon.
createBeacon(u, position) ==
    /\ NextBeaconId <= MaxBeacons
    /\ IF u = NoUser
       THEN /\ threw' = ""
            /\ UNCHANGED <<activeBeacons, messages, debugVars, chatVars>>
       ELSE /\ activeBeacons' = Put(activeBeacons, NextBeaconId,
                                    BeaconRecord(NextBeaconId, u, position, now))
            /\ debugTimeline' = Logged(debugTimeline, "beacon", "Created beacon")
            /\ eventsLogged' = eventsLogged + 1
            /\ messages' = Append(messages, ChatMessage(u, "beacon"))
            /\ threw' = "ReferenceError"
    /\ UNCHANGED <<clockVars, spatialVars, tradeVars, beaconStore, ringVars,
                   visualVars, lifeVars, fpsVars,
                   currentUser, users, doc, ready, connectionError,
                   hudVars, initVars, authVars, mathVars, widgetVars, chatVars>>

\* stores/index.ts joinBeacon(beaconId): under its condition the argument
\* users.get(...) of logDebug raises a TypeError (users is an array), before
\* anything is logged or sent; participants is assigned nowhere.
joinBeacon(u, beaconId) ==
    /\ IF /\ Has(activeBeacons, beaconId)
          /\ ~Includes(Get(activeBeacons, beaconId).participants, u)
       THEN threw' = "TypeError"
       ELSE threw' = ""
    /\ UNCHANGED <<clockVars, spatialVars, tradeVars, restVars>>

\* stores/index.ts markup: the "Join ...'s Beacon" item of the context menu
JoinBeaconShown(beacon, u) == beacon.active /\ ~Includes(beacon.participants, u)

\* Beacon.svelte createBeacon(position, creatorId)
Beacon_createBeacon(position, creatorId) ==
    /\ NextBeaconId <= MaxBeacons
    /\ beaconStore' = Put(beaconStore, NextBeaconId,
                          BeaconRecord(NextBeaconId, creatorId, position, BEACON_STAMP))
    /\ threw' = ""
    /\ UNCHANGED <<clockVars, spatialVars, tradeVars, activeBeacons, ringVars,
                   visualVars, lifeVars, fpsVars, docVars, extVars>>

BeaconNext ==
    \/ ticks < MaxBeaconTicks /\ Tick(1)
    \/ \E u \in UserIds \cup {NoUser}, position \in BeaconPositions :
          createBeacon(u, position)
    \/ \E u \in UserIds, i \in 1..Len(activeBeacons) :
          /\ JoinBeaconShown(activeBeacons[i].st, u)
          /\ joinBeacon(u, activeBeacons[i].id)
    \/ \E position \in BeaconPositions, creatorId \in UserIds :
          Beacon_createBeacon(position, creatorId)

BeaconSpec == Init /\ [][BeaconNext]_vars

\* The debug timeline: the calls of logDebug, createBeacon being its caller.
DebugNext ==
    \/ logDebug("beacon", "Created beacon")
    \/ \E u \in {"u1"}, position \in BeaconPositions : createBeacon(u, position)

DebugSpec == Init /\ [][DebugNext]_vars

(***************************************************************************)
(* Click rings.  App.svelte, the variant in stores/index.ts and Game.svelte *)
(* (with the store of stores.js) each keep a list of rings.  A timeout is   *)
(* an entry of ringTimeouts, in the order the timeouts were set, which is   *)
(* the order they are due in since all have one delay.  Timers are prompt:  *)
(* the clock does not pass the time a timer is due at before it has fired.  *)
(***************************************************************************)
\* the ids of the rings and of the pending timeouts of stores/index.ts
RingIdsInUse ==
    {indexClickRings[i].id : i \in 1..Len(indexClickRings)}
       \cup {ringTimeouts[i].ringId : i \in 1..Len(ringTimeouts)}

\* crypto.randomUUID(): an id that no ring and no pending timeout has
NextRingId == 1 + (CHOOSE m \in RingIdsInUse \cup {0} : \A k \in RingIdsInUse : k <= m)

\* the rings of the three stores together
RingCount == Len(clickRings) + Len(indexClickRings) + Len(gameClickRings)

\* handleUserInteraction(): updateUserActivity(user.id) for the current user
InteractionSpatial ==
    IF currentUser # NoUser /\ Has(spatialStore, currentUser)
    THEN Put(spatialStore, currentUser, ActivityRecord(currentUser))
    ELSE spatialStore

\* the exception handleUserInteraction() ends with
InteractionThrew ==
    IF currentUser # NoUser /\ ~Has(spatialStore, currentUser) THEN "TypeError" ELSE ""

\* App.svelte handleGameClick: addClickRing(x, y), which sets the timeout that
\* drops the first ring of the list, then handleUserInteraction()
handleGameClick(position) ==
    /\ RingCount < MaxRings
    /\ clickRings' = Append(clickRings,
                            [x |-> position.x, y |-> position.y, timestamp |-> now])
    /\ ringTimeouts' = Append(ringTimeouts,
                              [store |-> "App", due |-> now + RING_TIMEOUT, ringId |-> 0])
    /\ spatialStore' = InteractionSpatial
    /\ threw' = InteractionThrew
    /\ sweepReads' = <<>>
    /\ UNCHANGED <<clockVars, activeConnections, tradeVars, beaconVars,
                   indexClickRings, gameClickRings, ringSweepDue,
                   visualVars, lifeVars, fpsVars, docVars, extVars>>

\* stores/index.ts addClickRing(x, y): the ring, and the timeout that drops it
addClickRing(position) ==
    /\ RingCount < MaxRings
    /\ indexClickRings' = Append(indexClickRings,
                                 [id |-> NextRingId, x |-> position.x, y |-> position.y,
                                  createdAt |-> now])
    /\ ringTimeouts' = Append(ringTimeouts,
                              [store |-> "index", due |-> now + RING_TIMEOUT,
                               ringId |-> NextRingId])
    /\ threw' = ""
    /\ UNCHANGED <<clockVars, spatialVars, tradeVars, beaconVars,
                   clickRings, gameClickRings, ringSweepDue,
                   visualVars, lifeVars, fpsVars, docVars, extVars>>

\* Game.svelte handleClick, for the component's user: no timeout is set and
\* nothing else removes a ring of this store
GameHandleClick(u, position) ==
    /\ RingCount < MaxRings
    /\ IF u = NoUser
       THEN UNCHANGED gameClickRings
       ELSE gameClickRings' = Append(gameClickRings,
                                     [x |-> position.x, y |-> position.y, timestamp |-> now])
    /\ threw' = ""
    /\ UNCHANGED <<clockVars, spatialVars, tradeVars, beaconVars,
                   clickRings, indexClickRings, ringTimeouts, ringSweepDue,
                   visualVars, lifeVars, fpsVars, docVars, extVars>>

\* RingTimeoutFires whose App callback drops the youngest ring of the list
RingTimeoutFiresDroppingYoungest ==
    /\ ringTimeouts # <<>>
    /\ Head(ringTimeouts).due <= now
    /\ ringTimeouts' = Tail(ringTimeouts)
    /\ IF Head(ringTimeouts).store = "App"
       THEN \* rings.slice(0, -1)
            /\ clickRings' = IF clickRings = <<>> THEN <<>>
                             ELSE SubSeq(clickRings, 1, Len(clickRings) - 1)
            /\ UNCHANGED indexClickRings
       ELSE \* rings.filter(r => r.id !== ring.id)
            /\ indexClickRings' =
                  LET keep(r) == r.id # Head(ringTimeouts).ringId
                  IN  SelectSeq(indexClickRings, keep)
            /\ UNCHANGED clickRings
    /\ threw' = ""
    /\ UNCHANGED <<clockVars, spatialVars, tradeVars, beaconVars,
                   gameClickRings, ringSweepDue, visualVars, lifeVars, fpsVars, docVars, extVars>>

\* the callback of the timeout that is due first
RingTimeoutFires ==
    /\ ringTimeouts # <<>>
    /\ Head(ringTimeouts).due <= now
    /\ ringTimeouts' = Tail(ringTimeouts)
    /\ IF Head(ringTimeouts).store = "App"
       THEN \* rings.slice(1)
            /\ clickRings' = IF clickRings = <<>> THEN <<>> ELSE Tail(clickRings)
            /\ UNCHANGED indexClickRings
       ELSE \* rings.filter(r => r.id !== ring.id)
            /\ indexClickRings' =
                  LET keep(r) == r.id # Head(ringTimeouts).ringId
                  IN  SelectSeq(indexClickRings, keep)
            /\ UNCHANGED clickRings
    /\ threw' = ""
    /\ UNCHANGED <<clockVars, spatialVars, tradeVars, beaconVars,
                   gameClickRings, ringSweepDue, visualVars, lifeVars, fpsVars, docVars, extVars>>

\* stores/index.ts: the callback of the ring sweep's setInterval
RingSweep ==
    /\ ringSweepDue <= now
    /\ indexClickRings' =
          LET keep(r) == now - r.createdAt < RING_MAX_AGE
          IN  SelectSeq(indexClickRings, keep)
    /\ ringSweepDue' = ringSweepDue + RING_SWEEP_PERIOD
    /\ threw' = ""
    /\ UNCHANGED <<clockVars, spatialVars, tradeVars, beaconVars,
                   clickRings, gameClickRings, ringTimeouts,
                   visualVars, lifeVars, fpsVars, docVars, extVars>>

\* the time the next timer is due at
NextTimerDue ==
    IF ringTimeouts # <<>> /\ Head(ringTimeouts).due < ringSweepDue
    THEN Head(ringTimeouts).due ELSE ringSweepDue

\* The clock advances, up to the time the next timer is due at.
RingTick(d) ==
    /\ ticks < MaxRingTicks
    /\ now + d <= NextTimerDue
    /\ now' = now + d
    /\ ticks' = ticks + 1
    /\ UNCHANGED <<spatialVars, threw, tradeVars, restVars>>

RingNext ==
    \/ \E d \in RingTickSteps : RingTick(d)
    \/ \E position \in ClickPositions : handleGameClick(position)
    \/ \E position \in ClickPositions : addClickRing(position)
    \/ \E u \in UserIds \cup {NoUser}, position \in ClickPositions :
          GameHandleClick(u, position)
    \/ RingTimeoutFires
    \/ RingSweep

RingSpec == Init /\ [][RingNext]_vars

(***************************************************************************)
(* The App component: its life cycle, the visual store and the game loop.  *)
(***************************************************************************)
\* the ids that are in use: crypto.randomUUID() returns none of them
KnownUserIds ==
    {users[i] : i \in 1..Len(users)} \cup {doc.users[i] : i \in 1..Len(doc.users)}
       \cup Keys(spatialStore) \cup Keys(visualStore)
       \cup {connectedUsers[i].id : i \in 1..Len(connectedUsers)}

\* UsersBlock that initialises every user of the list, tracked or not
RECURSIVE UsersBlockNoGuard(_, _)
UsersBlockNoGuard(store, list) ==
    IF list = <<>> THEN store
    ELSE UsersBlockNoGuard(Put(store, Head(list), InitialSpatial), Tail(list))

\* App.svelte, the reactive block on `users`:
\* users.forEach(user => { if (!$spatialStore[user.id]) initUserSpatial(user.id) })
RECURSIVE UsersBlock(_, _)
UsersBlock(store, list) ==
    IF list = <<>> THEN store
    ELSE UsersBlock(IF Has(store, Head(list)) THEN store
                    ELSE Put(store, Head(list), InitialSpatial),
                    Tail(list))

\* the record initVisualState(userId, r, theta) stores
VisualRecord(r, theta) ==
    [currentR |-> r, currentTheta |-> theta, targetR |-> r, targetTheta |-> theta]

\* String.prototype.trim() on the names the model draws from
Trim(username) ==
    IF username = " bob" THEN "bob"
    ELSE IF username = " " THEN ""
    ELSE IF username = " hi" THEN "hi"
    ELSE username

\* users.find(u => u.username === username), for the list and the names given
NameTaken(list, names, username) ==
    \E i \in 1..Len(list) : Has(names, list[i]) /\ Get(names, list[i]) = username

\* what the inner try of createUser ends with, the new user being in the list:
\* the log of the existing user, the Error it throws for a name that is
\* found, or the ReferenceError of connectToAutomerge, declared nowhere
SyncOutcome(list, names, username) ==
    IF Includes(list, CloudAuthUser) THEN "existing user"
    ELSE IF NameTaken(list, names, username) THEN "Username already taken"
    ELSE "ReferenceError"

\* createUser whose inner catch gives the session up: the user it created is
\* no longer the current user
createUserAborting(username, id) ==
    /\ id \notin KnownUserIds
    /\ IF Trim(username) = ""
       THEN UNCHANGED <<currentUser, users, usernames, spatialStore, visualStore,
                        connectionError>>
       ELSE /\ users' = Append(users, id)
            /\ usernames' = Put(usernames, id, Trim(username))
            /\ spatialStore' = UsersBlock(Put(spatialStore, id, InitialSpatial), users')
            /\ visualStore' = Put(visualStore, id, VisualRecord(0, 0))
            /\ connectionError' = IF SyncOutcome(users', usernames', username) = "existing user"
                                  THEN connectionError ELSE TRUE
            /\ currentUser' = IF connectionError' THEN NoUser ELSE id
    /\ threw' = ""
    /\ sweepReads' = <<>>
    /\ UNCHANGED <<clockVars, activeConnections, tradeVars, beaconVars, ringVars,
                   connectedUsers, lifeVars, fpsVars, messages, doc, ready, alerts,
                   hudVars, initVars, mathVars, widgetVars, debugVars, chatVars>>

\* App.svelte createUser, for the text of the name input and the id that
\* crypto.randomUUID() returns, with the run of the reactive block that
\* follows it.  The inner catch takes what the inner try throws, so that the
\* outer catch and its alert are not reached.
createUser(username, id) ==
    /\ id \notin KnownUserIds
    /\ IF Trim(username) = ""
       THEN UNCHANGED <<currentUser, users, usernames, spatialStore, visualStore,
                        connectionError>>
       ELSE /\ currentUser' = id
            /\ users' = Append(users, id)
            /\ usernames' = Put(usernames, id, Trim(username))
            /\ spatialStore' = UsersBlock(Put(spatialStore, id, InitialSpatial), users')
            /\ visualStore' = Put(visualStore, id, VisualRecord(0, 0))
            /\ connectionError' = IF SyncOutcome(users', usernames', username) = "existing user"
                                  THEN connectionError ELSE TRUE
    /\ threw' = ""
    /\ sweepReads' = <<>>
    /\ UNCHANGED <<clockVars, activeConnections, tradeVars, beaconVars, ringVars,
                   connectedUsers, lifeVars, fpsVars, messages, doc, ready, alerts,
                   hudVars, initVars, mathVars, widgetVars, debugVars, chatVars>>

\* App.svelte updateTargetPosition(userId, r, theta)
updateTargetPosition(userId, r, theta) ==
    /\ visualStore' =
          Put(visualStore, userId,
              Spread(IF Has(visualStore, userId) THEN Get(visualStore, userId)
                     ELSE VisualRecord(0, 0),
                     [targetR |-> r, targetTheta |-> theta]))
    /\ threw' = ""
    /\ UNCHANGED <<clockVars, spatialVars, tradeVars, beaconVars, ringVars,
                   connectedUsers, lifeVars, fpsVars, docVars, extVars>>

\* Math.round(n / d) for n >= 0 and d > 0
RoundDiv(n, d) == (2 * n + d) \div (2 * d)

\* gameLoop that writes each user's current visual coordinates back as the
\* user's position in the spatial store
gameLoopWritingBack ==
    /\ animationFrame = "requested"
    /\ frameCount < MaxFrames
    /\ spatialStore' =
          [i \in 1..Len(spatialStore) |->
             IF Has(visualStore, spatialStore[i].id)
             THEN [id |-> spatialStore[i].id,
                   st |-> Spread(spatialStore[i].st,
                                 [position |->
                                    [r |-> Get(visualStore, spatialStore[i].id).currentR,
                                     theta |-> Get(visualStore, spatialStore[i].id).currentTheta]])]
             ELSE spatialStore[i]]
    /\ frameCount' = frameCount + 1
    /\ UNCHANGED <<clockVars, activeConnections, sweepReads, threw, tradeVars, beaconVars,
                   ringVars, visualVars, lifeVars, lastFpsUpdate, fps, docVars, extVars>>

\* App.svelte gameLoop, the callback of requestAnimationFrame: it counts the
\* frame, refreshes the FPS readout when FPS_PERIOD has passed, and requests
\* the next frame.  It reads and writes no store but the HUD's.
gameLoop ==
    /\ animationFrame = "requested"
    /\ frameCount < MaxFrames
    /\ IF now - lastFpsUpdate > FPS_PERIOD
       THEN /\ fps' = RoundDiv((frameCount + 1) * 1000, now - lastFpsUpdate)
            /\ frameCount' = 0
            /\ lastFpsUpdate' = now
       ELSE /\ frameCount' = frameCount + 1
            /\ UNCHANGED <<fps, lastFpsUpdate>>
    /\ animationFrame' = "requested"
    /\ threw' = ""
    /\ UNCHANGED <<clockVars, spatialVars, tradeVars, beaconVars, ringVars,
                   visualVars, mounted, gameMounted, listeners, docVars, extVars>>

\* the listeners the cleanup of App.svelte's onMount removes: the function
\* it hands to removeEventListener for 'mousedown' is a new one, which is
\* registered nowhere
AppRemoved == {<<"App", "resize">>, <<"App", "keydown">>, <<"App", "keyup">>}

\* App.svelte onMount; containerPresent: document.querySelector('.game-container')
\* finds an element
onMount(containerPresent) ==
    /\ mounted = "created"
    /\ mounted' = "mounted"
    /\ listeners' = listeners \cup AppRemoved
                       \cup (IF containerPresent THEN {<<"App", "mousedown">>} ELSE {})
    /\ animationFrame' = "requested"
    /\ threw' = ""
    /\ UNCHANGED <<clockVars, spatialVars, tradeVars, beaconVars, ringVars,
                   visualVars, gameMounted, fpsVars, docVars, extVars>>

\* The component is destroyed: the function onMount returned runs, then the
\* callback of onDestroy.  No clearInterval is called anywhere.
onDestroy ==
    /\ mounted = "mounted"
    /\ mounted' = "destroyed"
    /\ listeners' = listeners \ AppRemoved
    /\ animationFrame' = IF animationFrame # "null" THEN "cancelled" ELSE animationFrame
    /\ threw' = ""
    /\ UNCHANGED <<clockVars, spatialVars, tradeVars, beaconVars, ringVars,
                   visualVars, gameMounted, fpsVars, docVars, extVars>>

\* the listeners of Game.svelte
GameListeners == {<<"Game", "resize">>, <<"Game", "keydown">>, <<"Game", "keyup">>}

\* Game.svelte onMount
GameOnMount ==
    /\ gameMounted = "created"
    /\ gameMounted' = "mounted"
    /\ listeners' = listeners \cup GameListeners
    /\ threw' = ""
    /\ UNCHANGED <<clockVars, spatialVars, tradeVars, beaconVars, ringVars,
                   visualVars, mounted, animationFrame, fpsVars, docVars, extVars>>

\* Game.svelte is destroyed: the function its onMount returned runs
GameOnDestroy ==
    /\ gameMounted = "mounted"
    /\ gameMounted' = "destroyed"
    /\ listeners' = listeners \ GameListeners
    /\ threw' = ""
    /\ UNCHANGED <<clockVars, spatialVars, tradeVars, beaconVars, ringVars,
                   visualVars, mounted, animationFrame, fpsVars, docVars, extVars>>

\* the entry 'user_joined' appends to connectedUsers
JoinedUser(userId) ==
    [id |-> userId, connected |-> TRUE, cohered |-> TRUE, lastActive |-> now]

\* handleWebSocketMessage whose 'user_joined' appends without looking the id up
handleWebSocketMessageAppending(type, userId) ==
    /\ connectedUsers' =
          CASE type = "user_joined" ->
                 Append(connectedUsers, JoinedUser(userId))
            [] type = "user_left" ->
                 LET keep(u) == u.id # userId IN SelectSeq(connectedUsers, keep)
            [] type = "user_update" ->
                 [i \in 1..Len(connectedUsers) |->
                    IF connectedUsers[i].id = userId
                    THEN Spread(connectedUsers[i], [cohered |-> FALSE])
                    ELSE connectedUsers[i]]
            [] OTHER -> connectedUsers
    /\ threw' = ""
    /\ UNCHANGED <<clockVars, spatialVars, tradeVars, beaconVars, ringVars,
                   visualStore, lifeVars, fpsVars, docVars, extVars>>

\* stores/index.ts handleWebSocketMessage, for a message of the given type
\* about userId ('user_update' carries the state { cohered: false });
\* 'spatial_sync' assigns the variable spatialState, which nothing reads
handleWebSocketMessage(type, userId) ==
    /\ connectedUsers' =
          CASE type = "user_joined" ->
                 IF \E i \in 1..Len(connectedUsers) : connectedUsers[i].id = userId
                 THEN connectedUsers
                 ELSE Append(connectedUsers, JoinedUser(userId))
            [] type = "user_left" ->
                 LET keep(u) == u.id # userId IN SelectSeq(connectedUsers, keep)
            [] type = "user_update" ->
                 [i \in 1..Len(connectedUsers) |->
                    IF connectedUsers[i].id = userId
                    THEN Spread(connectedUsers[i], [cohered |-> FALSE])
                    ELSE connectedUsers[i]]
            [] OTHER -> connectedUsers
    /\ threw' = ""
    /\ UNCHANGED <<clockVars, spatialVars, tradeVars, beaconVars, ringVars,
                   visualStore, lifeVars, fpsVars, docVars, extVars>>

\* the types of message handleWebSocketMessage has a case for
MessageTypes == {"spatial_sync", "user_update", "user_joined", "user_left"}

AppNext ==
    \/ \E d \in AppTickSteps : ticks < MaxAppTicks /\ Tick(d)
    \/ \E containerPresent \in BOOLEAN : onMount(containerPresent)
    \/ onDestroy
    \/ GameOnMount
    \/ GameOnDestroy
    \/ gameLoop
    \/ CoherenceSweep(Len(spatialStore), 0)
    \/ \E username \in Usernames, id \in AppUserIds :
          mounted = "mounted" /\ createUser(username, id)
    \/ \E userId \in AppUserIds, target \in TargetPolars :
          updateTargetPosition(userId, target.r, target.theta)
    \/ \E type \in MessageTypes, userId \in AppUserIds : handleWebSocketMessage(type, userId)

AppSpec == Init /\ [][AppNext]_vars

\* The messages of the socket about the users of UserIds.
SocketNext ==
    \/ ticks < MaxSocketTicks /\ Tick(1)
    \/ \E type \in MessageTypes, userId \in UserIds : handleWebSocketMessage(type, userId)

SocketSpec == Init /\ [][SocketNext]_vars

(***************************************************************************)
(* Messages, users and the shared document.  `doc` is the document of the  *)
(* sync library: other peers add users and messages to it, and each change *)
(* is delivered to loadDocument.  No handler of this component writes      *)
(* users or messages to it.                                                *)
(***************************************************************************)
\* App.svelte:1359  bind:value={text} of the chat input
bindText(value) ==
    /\ text' = value
    /\ UNCHANGED <<clockVars, spatialVars, threw, tradeVars, beaconVars, ringVars,
                   visualVars, lifeVars, fpsVars, docVars,
                   hudVars, initVars, authVars, mathVars, widgetVars, debugVars, chat>>

\* createMessage that tests the text for the empty string and appends it as
\* it was typed
createMessageUntrimmed ==
    /\ Len(messages) < MaxMessages
    /\ IF currentUser = NoUser \/ text = ""
       THEN /\ threw' = ""
            /\ UNCHANGED <<messages, text, spatialStore>>
       ELSE /\ messages' = Append(messages,
                                  Spread(ChatMessage(currentUser, text), [timestamp |-> now]))
            /\ text' = ""
            /\ spatialStore' = InteractionSpatial
            /\ threw' = InteractionThrew
    /\ sweepReads' = <<>>
    /\ UNCHANGED <<clockVars, activeConnections, tradeVars, beaconVars, ringVars,
                   visualVars, lifeVars, fpsVars,
                   currentUser, users, doc, ready, connectionError,
                   hudVars, initVars, authVars, mathVars, widgetVars, debugVars, chat>>

\* App.svelte createMessage, on the text of the chat input: the message is
\* appended to the local list, the input cleared, then
\* updateUserActivity(user.id) runs
createMessage ==
    /\ Len(messages) < MaxMessages
    /\ IF currentUser = NoUser \/ Trim(text) = ""
       THEN /\ threw' = ""
            /\ UNCHANGED <<messages, text, spatialStore>>
       ELSE /\ messages' = Append(messages,
                                  Spread(ChatMessage(currentUser, Trim(text)),
                                         [timestamp |-> now]))
            /\ text' = ""
            /\ spatialStore' = InteractionSpatial
            /\ threw' = InteractionThrew
    /\ sweepReads' = <<>>
    /\ UNCHANGED <<clockVars, activeConnections, tradeVars, beaconVars, ringVars,
                   visualVars, lifeVars, fpsVars,
                   currentUser, users, doc, ready, connectionError,
                   hudVars, initVars, authVars, mathVars, widgetVars, debugVars, chat>>

\* stores/index.ts sendMessage(content): the message is appended to the
\* local list, then ws.send raises a ReferenceError (no ws is declared),
\* before updateUserActivity
sendMessage(content) ==
    /\ Len(messages) < MaxMessages
    /\ IF currentUser = NoUser
       THEN /\ threw' = ""
            /\ UNCHANGED messages
       ELSE /\ messages' = Append(messages, ChatMessage(currentUser, content))
            /\ threw' = "ReferenceError"
    /\ UNCHANGED <<clockVars, spatialVars, tradeVars, beaconVars, ringVars,
                   visualVars, lifeVars, fpsVars,
                   currentUser, users, doc, ready, connectionError, extVars>>

\* the documents a change of another peer can turn `doc` into: one more user,
\* or one more message of a user of the document
RemoteChanges ==
    {[doc EXCEPT !.users = Append(@, id)] : id \in DocUserIds \ KnownUserIds}
       \cup {[doc EXCEPT !.messages =
                 Append(@, [id |-> NextMessageId, userId |-> doc.users[i],
                            text |-> "hi", createdAt |-> now])] :
                i \in {k \in 1..Len(doc.users) : Len(doc.messages) < MaxMessages}}

\* App.svelte loadDocument(doc), called with the document when it is first
\* available and on every change of it, with the run of the reactive block on
\* `users` that follows it; hasDoc is false for loadDocument(undefined).  Its
\* callers, initDoc and handleChange, say what becomes of init() and of the
\* users' names.
loadDocument(hasDoc, newDoc) ==
    /\ doc' = newDoc
    /\ IF hasDoc
       THEN /\ currentUser' = IF Includes(newDoc.users, CloudAuthUser)
                              THEN CloudAuthUser ELSE NoUser
            /\ messages' = newDoc.messages
            /\ users' = newDoc.users
            /\ spatialStore' = UsersBlock(spatialStore, users')
       ELSE UNCHANGED <<currentUser, messages, users, spatialStore>>
    /\ ready' = TRUE
    /\ sweepReads' = <<>>
    /\ UNCHANGED <<clockVars, activeConnections, tradeVars, beaconVars, ringVars,
                   visualVars, lifeVars, fpsVars, connectionError, alerts,
                   hudVars, mathVars, widgetVars, debugVars, chatVars>>

\* the name a peer gave the user it added to the document
RemoteUsername(id) == IF id = CloudAuthUser THEN "cy" ELSE "ann"

\* the names of the users, with those of the users of the list that are new
RECURSIVE WithRemoteNames(_, _)
WithRemoteNames(names, list) ==
    IF list = <<>> THEN names
    ELSE WithRemoteNames(IF Has(names, Head(list)) THEN names
                         ELSE Put(names, Head(list), RemoteUsername(Head(list))),
                         Tail(list))

\* what the awaits of init() end with
AwaitOutcomes == {"ok", "LoginRequiredError", "Error"}

\* App.svelte init(), from the await it is at after construction to its next
\* one: outcome is what getAccessToken and verify end with, and handleReady is
\* handle.isReady().  The catch redirects for a LoginRequiredError and throws
\* the error again, which rejects the promise that no caller handles.
initAuth(outcome, handleReady) ==
    /\ initStage = "auth"
    /\ IF outcome = "ok"
       THEN /\ changeListener' = TRUE
            /\ initStage' = IF handleReady THEN "doc" ELSE "resolved"
            /\ threw' = ""
            /\ UNCHANGED redirected
       ELSE /\ redirected' = (outcome = "LoginRequiredError")
            /\ initStage' = "rejected"
            /\ threw' = outcome
            /\ UNCHANGED changeListener
    /\ UNCHANGED <<clockVars, spatialVars, tradeVars, beaconVars, ringVars, visualVars,
                   lifeVars, fpsVars, docVars,
                   hudVars, authVars, mathVars, widgetVars, debugVars, chatVars>>

\* init() from `await handle.doc()` on: loadDocument(doc) when the document
\* arrives, and for outcome "Error" the catch, handle.doc() being rejected or
\* loadDocument raising a TypeError (doc.users.map of a document without users)
initDoc(outcome, hasDoc) ==
    /\ initStage = "doc"
    /\ IF outcome = "ok"
       THEN /\ loadDocument(hasDoc, doc)
            /\ initStage' = "resolved"
            /\ threw' = ""
            /\ UNCHANGED <<changeListener, redirected, usernames>>
       ELSE /\ initStage' = "rejected"
            /\ threw' = outcome
            /\ UNCHANGED <<changeListener, redirected>>
            /\ UNCHANGED <<clockVars, spatialVars, tradeVars, beaconVars, ringVars,
                           visualVars, lifeVars, fpsVars, docVars,
                           hudVars, authVars, mathVars, widgetVars, debugVars, chatVars>>

\* App.svelte:267  handle.on('change', ({ doc }) => loadDocument(doc)), for
\* the document a change of a peer has made
handleChange(newDoc) ==
    /\ changeListener
    /\ loadDocument(TRUE, newDoc)
    /\ usernames' = WithRemoteNames(usernames, newDoc.users)
    /\ threw' = ""
    /\ UNCHANGED initVars

\* a change a peer makes to the document before the listener is set
remoteChange(newDoc) ==
    /\ ~changeListener
    /\ doc' = newDoc
    /\ usernames' = WithRemoteNames(usernames, newDoc.users)
    /\ UNCHANGED <<clockVars, spatialVars, threw, tradeVars, beaconVars, ringVars,
                   visualVars, lifeVars, fpsVars,
                   currentUser, users, messages, ready, connectionError, alerts,
                   hudVars, initVars, mathVars, widgetVars, debugVars, chatVars>>

\* the form of the name (App.svelte:1187-1188, {#if ready}{#if user === null})
LoginShown == ready /\ currentUser = NoUser

DocNext ==
    \/ ticks < MaxDocTicks /\ Tick(1)
    \/ \E outcome \in AwaitOutcomes, handleReady \in BOOLEAN : initAuth(outcome, handleReady)
    \/ \E outcome \in {"ok", "Error"}, hasDoc \in BOOLEAN : initDoc(outcome, hasDoc)
    \/ \E username \in Usernames, id \in AppUserIds : LoginShown /\ createUser(username, id)
    \/ \E value \in Texts : bindText(value)
    \/ createMessage
    \/ \E content \in Texts \ {""} : sendMessage(content)
    \/ \E newDoc \in RemoteChanges : handleChange(newDoc)
    \/ \E newDoc \in RemoteChanges : remoteChange(newDoc)

DocSpec == Init /\ [][DocNext]_vars

(***************************************************************************)
(* UserAuth.svelte, on the document handle of the App component: a change  *)
(* it makes to the document is delivered to the change listener, if set.   *)
(***************************************************************************)
\* String.prototype.toLowerCase() on the names the model draws from
ToLowerCase(username) == IF username = "Dee" THEN "dee" ELSE username

\* the document with the user pushed, whether it has a user of the id or not
PushedUnchecked(document, id) == [document EXCEPT !.users = Append(@, id)]

\* UserAuth.svelte:36-49  the callback of handle.change
Pushed(document, id) ==
    IF Includes(document.users, id) THEN document
    ELSE [document EXCEPT !.users = Append(@, id)]

\* UserAuth.svelte createUser, for the text of the name input; outcome is
\* what getAccessToken and verify end with, and verified the id of the user
\* verify returned (NoUser for none)
UserAuth_createUser(input, outcome, verified) ==
    LET username == ToLowerCase(Trim(input))
        writes   == username # "" /\ outcome = "ok" /\ verified # NoUser
        newDoc   == IF writes THEN Pushed(doc, verified) ELSE doc
    IN  /\ redirected' = IF username = "" THEN redirected
                         ELSE IF outcome = "LoginRequiredError" THEN TRUE
                         ELSE IF outcome = "ok" /\ verified = NoUser THEN TRUE
                         ELSE redirected
        /\ usernames' = IF newDoc # doc THEN Put(usernames, verified, username)
                        ELSE usernames
        /\ IF newDoc # doc /\ changeListener
           THEN loadDocument(TRUE, newDoc)
           ELSE /\ doc' = newDoc
                /\ UNCHANGED <<clockVars, spatialVars, tradeVars, beaconVars, ringVars,
                               visualVars, lifeVars, fpsVars,
                               currentUser, users, messages, ready, connectionError,
                               alerts, hudVars, mathVars, widgetVars, debugVars, chatVars>>
        /\ threw' = ""
        /\ UNCHANGED <<initStage, changeListener>>

AuthNext ==
    \/ \E outcome \in AwaitOutcomes, handleReady \in BOOLEAN : initAuth(outcome, handleReady)
    \/ \E outcome \in {"ok", "Error"}, hasDoc \in BOOLEAN : initDoc(outcome, hasDoc)
    \/ \E newDoc \in RemoteChanges : remoteChange(newDoc)
    \/ \E input \in AuthInputs, outcome \in AwaitOutcomes, verified \in DocUserIds \cup {NoUser} :
          UserAuth_createUser(input, outcome, verified)

AuthSpec == Init /\ [][AuthNext]_vars

(***************************************************************************)
(* components/Chat.svelte: its props user, messages and text are the       *)
(* fields of `chat`.  The component is given its user by the one that      *)
(* renders it.                                                             *)
(***************************************************************************)
ChatFrame ==
    UNCHANGED <<clockVars, spatialVars, threw, tradeVars, beaconVars, ringVars,
                visualVars, lifeVars, fpsVars, docVars,
                hudVars, initVars, authVars, mathVars, widgetVars, debugVars, text>>

\* Chat.svelte:7  export let user, set by the parent
Chat_setUser(u) ==
    /\ chat' = [chat EXCEPT !.user = u]
    /\ ChatFrame

\* Chat.svelte:61  bind:value={text} of the input
Chat_bindText(value) ==
    /\ chat' = [chat EXCEPT !.text = value]
    /\ ChatFrame

\* Chat.svelte sendMessage
Chat_sendMessage ==
    /\ Len(chat.messages) < MaxMessages
    /\ chat' = IF chat.user = NoUser \/ Trim(chat.text) = "" THEN chat
               ELSE [chat EXCEPT
                       !.messages = Append(@, [id |-> Len(chat.messages) + 1,
                                               userId |-> chat.user,
                                               text |-> Trim(chat.text),
                                               createdAt |-> CHAT_STAMP]),
                       !.text = ""]
    /\ ChatFrame

ChatNext ==
    \/ ticks < MaxChatTicks /\ Tick(1)
    \/ \E outcome \in AwaitOutcomes, handleReady \in BOOLEAN : initAuth(outcome, handleReady)
    \/ \E outcome \in {"ok", "Error"}, hasDoc \in BOOLEAN : initDoc(outcome, hasDoc)
    \/ \E username \in Usernames, id \in AppUserIds : LoginShown /\ createUser(username, id)
    \/ \E value \in ChatTexts : bindText(value)
    \/ createMessage
    \/ \E u \in AppUserIds \cup {NoUser} : Chat_setUser(u)
    \/ \E value \in ChatTexts : Chat_bindText(value)
    \/ Chat_sendMessage

ChatSpec == Init /\ [][ChatNext]_vars

(***************************************************************************)
(* Interactions of the logged-in user with the view: the mouse, the click  *)
(* and the chat input.  A timeout of handleMouseMove is an entry of        *)
(* moveTimeouts, the time it is due at, in the order the timeouts were set. *)
(***************************************************************************)
\* App.svelte handleMouseMove (stores/index.ts:276-297 has the same body),
\* for the pointer at (x, y) from the centre: the HUD is updated and a
\* timeout is set.  moveTimeout is a local of the handler, null in every
\* call, so that no earlier timeout is cleared.
handleMouseMove(x, y) ==
    /\ Len(moveTimeouts) < MaxPendingMoves
    /\ hudStore' = Spread(hudStore, [mouseCartesian |-> [x |-> x, y |-> y],
                                     mousePolar |-> cartesianToPolar(x, y)])
    /\ moveTimeouts' = Append(moveTimeouts, now + MOVE_TIMEOUT)
    /\ threw' = ""
    /\ UNCHANGED <<clockVars, spatialVars, tradeVars, beaconVars, ringVars, visualVars,
                   lifeVars, fpsVars, docVars, contextMenu,
                   initVars, authVars, mathVars, widgetVars, debugVars, chatVars>>

\* the callback of the timeout of handleMouseMove that is due first:
\* handleUserInteraction()
MoveTimeoutFires ==
    /\ moveTimeouts # <<>>
    /\ Head(moveTimeouts) <= now
    /\ moveTimeouts' = Tail(moveTimeouts)
    /\ spatialStore' = InteractionSpatial
    /\ threw' = InteractionThrew
    /\ sweepReads' = <<>>
    /\ UNCHANGED <<clockVars, activeConnections, tradeVars, beaconVars, ringVars,
                   visualVars, lifeVars, fpsVars, docVars, hudStore, contextMenu,
                   initVars, authVars, mathVars, widgetVars, debugVars, chatVars>>

\* stores/index.ts handleContextMenu, for a right click at (x, y) on the
\* element of targetUserId ("null" for the map)
handleContextMenu(x, y, targetUserId) ==
    /\ contextMenu' = [visible |-> TRUE, x |-> x, y |-> y, targetUserId |-> targetUserId]
    /\ threw' = ""
    /\ UNCHANGED <<clockVars, spatialVars, tradeVars, beaconVars, ringVars, visualVars,
                   lifeVars, fpsVars, docVars, hudStore, moveTimeouts,
                   initVars, authVars, mathVars, widgetVars, debugVars, chatVars>>

\* stores/index.ts handleClick, the click handler of its game container;
\* insideMenu tells whether the click was on the context menu
handleClick(insideMenu) ==
    /\ contextMenu' = IF contextMenu.visible /\ ~insideMenu
                      THEN [contextMenu EXCEPT !.visible = FALSE]
                      ELSE contextMenu
    /\ threw' = ""
    /\ UNCHANGED <<clockVars, spatialVars, tradeVars, beaconVars, ringVars, visualVars,
                   lifeVars, fpsVars, docVars, hudStore, moveTimeouts,
                   initVars, authVars, mathVars, widgetVars, debugVars, chatVars>>

\* The clock advances, up to the time the next timer is due at.
HudTick(d) ==
    /\ ticks < MaxHudTicks
    /\ moveTimeouts # <<>> => now + d <= Head(moveTimeouts)
    /\ RingTick(d)

\* the view of a user who is logged in (App.svelte:1188, {#if user === null})
GameShown == currentUser # NoUser

HudNext ==
    \/ \E d \in HudTickSteps : HudTick(d)
    \/ \E username \in Usernames, id \in AppUserIds :
          currentUser = NoUser /\ createUser(username, id)
    \/ \E p \in MousePoints : GameShown /\ handleMouseMove(p.x, p.y)
    \/ MoveTimeoutFires
    \/ \E position \in ClickPositions : GameShown /\ handleGameClick(position)
    \/ RingTimeoutFires
    \/ RingSweep
    \/ \E targetUserId \in {"null"} : GameShown /\ handleContextMenu(1, 1, targetUserId)
    \/ \E insideMenu \in BOOLEAN : GameShown /\ handleClick(insideMenu)
    \/ \E value \in Texts : GameShown /\ bindText(value)
    \/ GameShown /\ createMessage
    \/ \E content \in Texts \ {""} : GameShown /\ sendMessage(content)

HudSpec == Init /\ [][HudNext]_vars

(***************************************************************************)
(* Calls of the functions of angles: lastCall holds the function that was  *)
(* called last, its arguments and what it returned.                        *)
(***************************************************************************)
CallNormalizeAngle(angle) ==
    /\ lastCall' = [fn |-> "normalizeAngle", angle |-> angle,
                    result |-> normalizeAngle(angle)]
    /\ UNCHANGED <<clockVars, spatialVars, threw, tradeVars, beaconVars, ringVars,
                   visualVars, lifeVars, fpsVars, docVars,
                   hudVars, initVars, authVars, widgetVars, debugVars, chatVars>>

CallLerpPolar(start, end, t) ==
    /\ lastCall' = [fn |-> "lerpPolar", start |-> start, end |-> end, t |-> t,
                    result |-> lerpPolar(start, end, t)]
    /\ UNCHANGED <<clockVars, spatialVars, threw, tradeVars, beaconVars, ringVars,
                   visualVars, lifeVars, fpsVars, docVars,
                   hudVars, initVars, authVars, widgetVars, debugVars, chatVars>>

\* cartesianToPolar(polarToCartesian(r, theta))
CallRoundTrip(r, theta) ==
    /\ lastCall' =
          LET cartesian == polarToCartesian(r, theta)
          IN  [fn |-> "roundTrip", r |-> r, theta |-> theta, cartesian |-> cartesian,
               result |-> cartesianToPolar(cartesian.x, cartesian.y)]
    /\ UNCHANGED <<clockVars, spatialVars, threw, tradeVars, beaconVars, ringVars,
                   visualVars, lifeVars, fpsVars, docVars,
                   hudVars, initVars, authVars, widgetVars, debugVars, chatVars>>

MathNext ==
    \/ \E angle \in Angles : CallNormalizeAngle(angle)
    \/ \E startTheta \in LerpAngles, endTheta \in LerpAngles,
          radii \in LerpRadii, t \in LerpFactors :
          CallLerpPolar([r |-> radii.start, theta |-> startTheta],
                        [r |-> radii.end, theta |-> endTheta], t)
    \/ \E r \in 0..MaxRadius, theta \in AxisAngles : CallRoundTrip(r, theta)

MathSpec == Init /\ [][MathNext]_vars

(***************************************************************************)
(* KeyforgeWidget (part_000).  Its callback props are given, as in the     *)
(* usage the README shows.  An id or a key string is a number that no item *)
(* has yet.                                                                *)
(***************************************************************************)
\* generateId() and generateKeyString(): a value that no item carries
FreshToken ==
    1 + (LET used == {keyforge.items[i].id : i \in 1..Len(keyforge.items)}
                        \cup {keyforge.items[i].data : i \in 1..Len(keyforge.items)}
                        \cup {0}
         IN  CHOOSE n \in used : \A k \in used : k <= n)

\* showStatus(message): the message, and the timeout that clears it
WithStatus(widget, message) ==
    [widget EXCEPT !.statusMessage = message, !.statusTimeouts = @ + 1]

\* the frame of the actions of the widget
ForgeFrame ==
    UNCHANGED <<clockVars, spatialVars, threw, tradeVars, beaconVars, ringVars,
                visualVars, lifeVars, fpsVars, docVars,
                hudVars, initVars, authVars, mathVars, mouseDistance, debugVars, chatVars>>

\* the menu item "Create Key": createKey(contextMenu.x, contextMenu.y) and
\* setContextMenu(null)
createKey(x, y) ==
    /\ Len(keyforge.items) < MaxItems
    /\ LET newItem == [id |-> FreshToken + 1, emoji |-> "key", data |-> FreshToken,
                       x |-> x, y |-> y, type |-> "key"]
       IN  keyforge' = WithStatus([keyforge EXCEPT
                                     !.items = Append(@, newItem),
                                     !.onItemCreate = Append(@, newItem),
                                     !.contextMenu = [open |-> FALSE]],
                                  "Key forged!")
    /\ ForgeFrame

\* createLock that reports the lock to onItemCreate and not its key
createLockKeyUnreported(x, y, encryptionFails, offset) ==
    /\ Len(keyforge.items) + 1 < MaxItems
    /\ IF encryptionFails
       THEN keyforge' = [keyforge EXCEPT !.contextMenu = [open |-> FALSE]]
       ELSE LET newLock == [id |-> FreshToken + 2, emoji |-> "lock", data |-> FreshToken,
                            x |-> x, y |-> y, type |-> "lock", encrypted |-> TRUE]
                newKey  == [id |-> FreshToken + 3, emoji |-> "key", data |-> FreshToken,
                            x |-> x + offset.x, y |-> y + offset.y, type |-> "key"]
            IN  keyforge' = WithStatus([keyforge EXCEPT
                                          !.items = @ \o <<newLock, newKey>>,
                                          !.onItemCreate = Append(@, newLock),
                                          !.contextMenu = [open |-> FALSE]],
                                       "Chest created with matching key!")
    /\ ForgeFrame

\* the menu item "Create Lock": createLock(contextMenu.x, contextMenu.y) and
\* setContextMenu(null).  encryptionFails tells that encryptData returned
\* null; the lock's data is the key string it was encrypted with, and offset
\* is where the random angle and distance put the key.
createLock(x, y, encryptionFails, offset) ==
    /\ Len(keyforge.items) + 1 < MaxItems
    /\ IF encryptionFails
       THEN keyforge' = [keyforge EXCEPT !.contextMenu = [open |-> FALSE]]
       ELSE LET newLock == [id |-> FreshToken + 2, emoji |-> "lock", data |-> FreshToken,
                            x |-> x, y |-> y, type |-> "lock", encrypted |-> TRUE]
                newKey  == [id |-> FreshToken + 3, emoji |-> "key", data |-> FreshToken,
                            x |-> x + offset.x, y |-> y + offset.y, type |-> "key"]
            IN  keyforge' = WithStatus([keyforge EXCEPT
                                          !.items = @ \o <<newLock, newKey>>,
                                          !.onItemCreate = @ \o <<newLock, newKey>>,
                                          !.contextMenu = [open |-> FALSE]],
                                       "Chest created with matching key!")
    /\ ForgeFrame

\* the callback of a timeout of showStatus
StatusTimeoutFires ==
    /\ keyforge.statusTimeouts > 0
    /\ keyforge' = [keyforge EXCEPT !.statusMessage = "", !.statusTimeouts = @ - 1]
    /\ ForgeFrame

\* part_000 handleContextMenu, for a right click at (x, y)
Forge_handleContextMenu(x, y) ==
    /\ keyforge' = [keyforge EXCEPT !.contextMenu = [open |-> TRUE, x |-> x, y |-> y]]
    /\ ForgeFrame

\* part_000 handleClick
Forge_handleClick ==
    /\ keyforge' = [keyforge EXCEPT !.contextMenu = [open |-> FALSE]]
    /\ ForgeFrame

\* part_000 handleDragStart(id, e)
handleDragStart(id) ==
    /\ keyforge' = [keyforge EXCEPT !.activeDraggable = id]
    /\ ForgeFrame

\* part_000 handleDragMove(e), for the pointer at (x, y)
handleDragMove(x, y) ==
    /\ Len(keyforge.onItemUpdate) < MaxDrags
    /\ LET found == {i \in 1..Len(keyforge.items) :
                        keyforge.items[i].id = keyforge.activeDraggable}
       IN  IF keyforge.activeDraggable = 0 \/ found = {}
           THEN UNCHANGED keyforge
           ELSE LET item        == keyforge.items[CHOOSE i \in found : \A j \in found : i <= j]
                    updatedItem == [item EXCEPT !.x = x, !.y = y]
                IN  keyforge' =
                       [keyforge EXCEPT
                          !.items = [i \in 1..Len(@) |->
                                       IF @[i].id = keyforge.activeDraggable
                                       THEN updatedItem ELSE @[i]],
                          !.onItemUpdate = Append(@, updatedItem)]
    /\ ForgeFrame

\* part_000 handleDragEnd
handleDragEnd ==
    /\ keyforge' = [keyforge EXCEPT !.activeDraggable = 0]
    /\ ForgeFrame

\* the window listeners of the effect are set while an item is dragged
DragListenersSet == keyforge.activeDraggable # 0

ForgeNext ==
    \/ \E p \in ForgePoints : Forge_handleContextMenu(p.x, p.y)
    \/ Forge_handleClick
    \/ keyforge.contextMenu.open
          /\ createKey(keyforge.contextMenu.x, keyforge.contextMenu.y)
    \/ \E encryptionFails \in BOOLEAN, offset \in KeyOffsets :
          /\ keyforge.contextMenu.open
          /\ createLock(keyforge.contextMenu.x, keyforge.contextMenu.y,
                        encryptionFails, offset)
    \/ StatusTimeoutFires
    \/ \E i \in 1..Len(keyforge.items) : handleDragStart(keyforge.items[i].id)
    \/ \E p \in ForgePoints : DragListenersSet /\ handleDragMove(p.x, p.y)
    \/ DragListenersSet /\ handleDragEnd

ForgeSpec == Init /\ [][ForgeNext]_vars

(***************************************************************************)
(* MouseDistanceWidget (part_002).  The source declares averageInterval    *)
(* twice, as the prop that is the period and as the handle of the second   *)
(* interval; the field of that name is the handle.  An interval or the     *)
(* listener calls its callback at any time while it is set.                *)
(***************************************************************************)
\* the frame of the actions of the widget
MotionFrame ==
    UNCHANGED <<clockVars, spatialVars, threw, tradeVars, beaconVars, ringVars,
                visualVars, lifeVars, fpsVars, docVars,
                hudVars, initVars, authVars, mathVars, keyforge, debugVars, chatVars>>

\* the sum of the numbers of a list
RECURSIVE Sum(_)
Sum(list) == IF list = <<>> THEN 0 ELSE Head(list) + Sum(Tail(list))

\* part_002 onMount: the two intervals and the window listener
Motion_onMount ==
    /\ mouseDistance.state = "created"
    /\ mouseDistance' = [mouseDistance EXCEPT !.state = "mounted",
                                               !.motionInterval = TRUE,
                                               !.averageInterval = TRUE,
                                               !.listener = TRUE]
    /\ MotionFrame

\* the callback of motionInterval
MotionIntervalFires ==
    /\ mouseDistance.motionInterval
    /\ mouseDistance' = [mouseDistance EXCEPT !.lastMotion = mouseDistance.cumulativeMovement,
                                               !.ran = "motionInterval"]
    /\ MotionFrame

\* the callback of averageInterval
AverageIntervalFires ==
    /\ mouseDistance.averageInterval
    /\ mouseDistance' =
          [mouseDistance EXCEPT
             !.averageMotion = IF Len(mouseDistance.motionHistory) > 0
                               THEN [num |-> Sum(mouseDistance.motionHistory),
                                     den |-> Len(mouseDistance.motionHistory)]
                               ELSE [num |-> 0, den |-> 1],
             !.motionHistory = <<>>,
             !.ran = "averageInterval"]
    /\ MotionFrame

\* the window's mousemove listener, for the pointer at (x, y):
\* displayedMotion += (deltaMotion - displayedMotion) * 0.1
Motion_handleMouseMove(x, y) ==
    /\ mouseDistance.listener
    /\ LET deltaX == x - mouseDistance.lastX
           deltaY == y - mouseDistance.lastY
           motion == Sqrt(deltaX * deltaX + deltaY * deltaY)
           moved  == mouseDistance.cumulativeMovement + motion
           delta  == moved - mouseDistance.lastMotion
           shown  == mouseDistance.displayedMotion
       IN  /\ motion > 0
           /\ moved <= MaxMovement
           /\ mouseDistance' =
                 [mouseDistance EXCEPT
                    !.motionHistory = Append(@, motion),
                    !.cumulativeMovement = moved,
                    !.lastX = x,
                    !.lastY = y,
                    !.deltaMotion = delta,
                    !.displayedMotion = [num |-> 9 * shown.num + delta * shown.den,
                                         den |-> 10 * shown.den],
                    !.ran = "handleMouseMove"]
    /\ MotionFrame

\* Motion_onDestroy that leaves the second interval set
Motion_onDestroyLeavingInterval ==
    /\ mouseDistance.state = "mounted"
    /\ mouseDistance' = [mouseDistance EXCEPT !.state = "destroyed",
                                               !.listener = FALSE,
                                               !.motionInterval = FALSE]
    /\ MotionFrame

\* the function onMount returned, which the component's destruction calls
Motion_onDestroy ==
    /\ mouseDistance.state = "mounted"
    /\ mouseDistance' = [mouseDistance EXCEPT !.state = "destroyed",
                                               !.listener = FALSE,
                                               !.motionInterval = FALSE,
                                               !.averageInterval = FALSE]
    /\ MotionFrame

MotionNext ==
    \/ Motion_onMount
    \/ MotionIntervalFires
    \/ AverageIntervalFires
    \/ \E p \in MotionPoints : Motion_handleMouseMove(p.x, p.y)
    \/ Motion_onDestroy

MotionSpec == Init /\ [][MotionNext]_vars

(***************************************************************************)
(* Claims about the spatial store.                                         *)
(***************************************************************************)
\* the i-th entry of the spatial store
Spatial(i) == spatialStore[i].st

\* p is the origin, in either of the two shapes a position takes
IsOrigin(p) == IF "r" \in DOMAIN p THEN p.r = 0 ELSE p.x = 0 /\ p.y = 0

\* a step of one of the four operations of App.svelte that C1 names
AppSpatialStep ==
    \/ \E userId \in UserIds : initUserSpatial(userId)
    \/ \E userId \in UserIds, connected \in BOOLEAN : handleWebSocketConnection(userId, connected)
    \/ \E userId \in UserIds : updateUserActivity(userId)
    \/ \E k \in 0..Len(spatialStore), drift \in {0, 1} : CoherenceSweep(k, drift)

\* a step of the coherence sweep
SweepStep == \E k \in 0..Len(spatialStore), drift \in {0, 1} : CoherenceSweep(k, drift)

\* C1 (as claimed): after each initUserSpatial, handleWebSocketConnection,
\* updateUserActivity and coherence sweep, every user the operation wrote (all
\* users, for a sweep) has cohered true if and only if it is connected and
\* now - lastActive < COHERENCE_TIMEOUT.
C1_CoheredIffConnectedAndActive ==
    [][AppSpatialStep =>
         \A i \in 1..Len(spatialStore') :
            (SweepStep \/ i > Len(spatialStore) \/ spatialStore'[i] # spatialStore[i])
            => (Truthy(spatialStore'[i].st, "cohered")
                  <=> /\ Truthy(spatialStore'[i].st, "connected")
                      /\ ActiveWithin(spatialStore'[i].st, now', COHERENCE_TIMEOUT))]_vars

C3_DecoheredResetToOrigin ==
    \A i \in 1..Len(sweepReads) :
        ~ActiveWithin(Spatial(i), sweepReads[i], COHERENCE_TIMEOUT)
        => "position" \in DOMAIN Spatial(i) /\ IsOrigin(Spatial(i).position)

\* C3 witness: a sweep has reset an idle user to the polar origin while an
\* active user keeps the position the pointer gave it.
C3_Witness ==
    \E i, j \in 1..Len(sweepReads) :
        /\ "lastActive" \in DOMAIN Spatial(i)
        /\ sweepReads[i] - Spatial(i).lastActive >= COHERENCE_TIMEOUT
        /\ Spatial(i).position = [r |-> 0, theta |-> 0]
        /\ ActiveWithin(Spatial(j), sweepReads[j], COHERENCE_TIMEOUT)
        /\ ~IsOrigin(Spatial(j).position)

\* C4 (as claimed): a coherence sweep judges every user against one and the
\* same clock value.
C4_SameNowSnapshot ==
    \A i, j \in 1..Len(sweepReads) : sweepReads[i] = sweepReads[j]

\* C5: a user id without an entry in the spatial store is not cohered for
\* isUserCohered (App and Game) and gets the class 'decohered'.
C5_NoEntryIsDecohered ==
    \A userId \in UserIds :
        ~Has(spatialStore, userId)
        => /\ ~isUserCohered(userId)
           /\ ~GameIsUserCohered(userId)
           /\ userDisplayClass(userId) = "decohered"

\* C5 witness: one user has no entry while another is tracked and cohered.
C5_Witness ==
    \E a, b \in UserIds :
        /\ ~Has(spatialStore, a)
        /\ Has(spatialStore, b)
        /\ isUserCohered(b)
        /\ userDisplayClass(b) = "cohered"

(***************************************************************************)
(* Claims about the trades.                                                *)
(***************************************************************************)
\* user's entry of the trade's rulesAccepted is true
HasAccepted(trade, user) ==
    Has(trade.rulesAccepted, user) /\ Get(trade.rulesAccepted, user)

\* both parties of the trade have accepted the rules
BothAccepted(trade) ==
    HasAccepted(trade, trade.initiatorId) /\ HasAccepted(trade, trade.acceptorId)

\* one party of the trade has accepted the rules and the other has not
PartlyAccepted(trade) ==
    /\ HasAccepted(trade, trade.initiatorId) \/ HasAccepted(trade, trade.acceptorId)
    /\ ~BothAccepted(trade)

\* every trade of both stores
AllTrades ==
    {activeTrades[i].st : i \in 1..Len(activeTrades)}
       \cup {tradeStore[i].st : i \in 1..Len(tradeStore)}

\* C6 (as claimed): a trade in state 'trading' has every participant's
\* rulesAccepted entry true, and a trade that only some participants have
\* accepted is in state 'rules_review'.
C6_TradingOnlyWhenAllAccepted ==
    \A trade \in AllTrades :
        /\ trade.state = "trading" => BothAccepted(trade)
        /\ PartlyAccepted(trade) => trade.state = "rules_review"

\* the edges of invited -> rules_review -> trading -> completed | cancelled,
\* with a cancel from every state that is not terminal
DeclaredEdge(from, to) ==
    \/ from = "invited" /\ to = "rules_review"
    \/ from = "rules_review" /\ to = "trading"
    \/ from = "trading" /\ to = "completed"
    \/ from \in {"invited", "rules_review", "trading"} /\ to = "cancelled"

\* C7 (as claimed): every change of a trade's state is an edge of the
\* declared path; 'trading' is entered from 'rules_review' only.
C7_DeclaredPathOnly ==
    [][/\ \A i \in 1..Len(activeTrades) :
             \/ activeTrades'[i].st.state = activeTrades[i].st.state
             \/ DeclaredEdge(activeTrades[i].st.state, activeTrades'[i].st.state)
       /\ \A i \in 1..Len(tradeStore) :
             \/ tradeStore'[i].st.state = tradeStore[i].st.state
             \/ DeclaredEdge(tradeStore[i].st.state, tradeStore'[i].st.state)]_vars

\* the states the spec calls terminal
TerminalStates == {"completed", "cancelled"}

C9_MutationSetsUpdatedAt ==
    [][/\ \A i \in 1..Len(activeTrades) :
             activeTrades'[i] # activeTrades[i] => activeTrades'[i].st.updatedAt = now'
       /\ \A i \in 1..Len(tradeStore) :
             tradeStore'[i] # tradeStore[i] => tradeStore'[i].st.updatedAt = now']_vars

\* user has a step that takes the i-th trade of activeTrades to state `to`
CanMoveActiveTrade(user, i, to) ==
    ENABLED (TradeStepBy(user) /\ activeTrades'[i].st.state = to)

\* user has a step that takes the i-th trade of tradeStore to state `to`
CanMoveStoredTrade(user, i, to) ==
    ENABLED (TradeStepBy(user) /\ tradeStore'[i].st.state = to)

\* C10 (as claimed): while a trade is invited, its acceptor can take it to
\* 'rules_review' and to 'cancelled', and its initiator can take it to
\* 'cancelled'.
C10_InvitedTransitionsEnabled ==
    /\ \A i \in 1..Len(activeTrades) :
          activeTrades[i].st.state = "invited"
          => /\ CanMoveActiveTrade(activeTrades[i].st.acceptorId, i, "rules_review")
             /\ CanMoveActiveTrade(activeTrades[i].st.acceptorId, i, "cancelled")
             /\ CanMoveActiveTrade(activeTrades[i].st.initiatorId, i, "cancelled")
    /\ \A i \in 1..Len(tradeStore) :
          tradeStore[i].st.state = "invited"
          => /\ CanMoveStoredTrade(tradeStore[i].st.acceptorId, i, "rules_review")
             /\ CanMoveStoredTrade(tradeStore[i].st.acceptorId, i, "cancelled")
             /\ CanMoveStoredTrade(tradeStore[i].st.initiatorId, i, "cancelled")

(***************************************************************************)
(* Claims about the beacons.                                               *)
(***************************************************************************)
\* C11 (as claimed): a step of joinBeacon for a user and a beacon leaves that
\* user's id in the beacon's participants, exactly once.
C11_JoinAddsParticipantOnce ==
    [][\A u \in UserIds, i \in 1..Len(activeBeacons) :
          joinBeacon(u, activeBeacons[i].id)
          => Cardinality({k \in 1..Len(activeBeacons'[i].st.participants) :
                             activeBeacons'[i].st.participants[k] = u}) = 1]_vars

C13_RingsExpire ==
    /\ \A i \in 1..Len(clickRings) : now - clickRings[i].timestamp <= RING_MAX_AGE
    /\ \A i \in 1..Len(indexClickRings) : now - indexClickRings[i].createdAt <= RING_MAX_AGE
    /\ \A i \in 1..Len(gameClickRings) : now - gameClickRings[i].timestamp <= RING_MAX_AGE

\* what C13 claims, of the rings of App.svelte and of stores/index.ts alone
C13_TimedRingsExpire ==
    /\ \A i \in 1..Len(clickRings) : now - clickRings[i].timestamp <= RING_TIMEOUT
    /\ \A i \in 1..Len(indexClickRings) : now - indexClickRings[i].createdAt <= RING_TIMEOUT

(***************************************************************************)
(* Claims about the App component.                                         *)
(***************************************************************************)
\* |a - b|
AbsDiff(a, b) == IF a >= b THEN a - b ELSE b - a

\* how far the current visual coordinates are from their target
VisualDistance(v) ==
    AbsDiff(v.currentR, v.targetR) + AbsDiff(v.currentTheta, v.targetTheta)

\* C14: a step of gameLoop changes no entry of the spatial store.
C14_GameLoopKeepsSpatial ==
    [][gameLoop => spatialStore' = spatialStore]_vars

\* C14 witness: frames have been counted while a user is tracked in the
\* spatial store whose visual coordinates are away from their target.
C14_Witness ==
    /\ frameCount > 0
    /\ \E i \in 1..Len(visualStore) :
          /\ Has(spatialStore, visualStore[i].id)
          /\ VisualDistance(visualStore[i].st) > 0

\* C15 (as claimed): a frame moves the current visual coordinates of every
\* user that is away from its target closer to the target.
C15_FrameApproachesTarget ==
    [][gameLoop =>
         \A i \in 1..Len(visualStore) :
            VisualDistance(visualStore[i].st) > 0
            => VisualDistance(visualStore'[i].st) < VisualDistance(visualStore[i].st)]_vars

\* C16 (as claimed): after a user_left message for a user the visual store
\* has no entry for that user.
C16_UserLeftDropsVisual ==
    [][\A userId \in AppUserIds :
          handleWebSocketMessage("user_left", userId) => ~Has(visualStore', userId)]_vars

\* a callback of a timer or of an animation frame that the component started
TimerCallback == gameLoop \/ CoherenceSweep(Len(spatialStore), 0)

\* C17 (as claimed): once the component is destroyed, no callback of its
\* timers or animation frames runs and changes a store.
C17_NoCallbackAfterDestroy ==
    [][mounted = "destroyed" /\ TimerCallback
         => UNCHANGED <<spatialStore, visualStore, fps>>]_vars

IsPrefix(a, b) == Len(a) <= Len(b) /\ SubSeq(b, 1, Len(a)) = a

\* C19 (as claimed): every step keeps the messages of the list, in their
\* order, and adds new messages at the end only.
C19_MessagesAppendOnly ==
    [][IsPrefix(messages, messages')]_vars

InteractionStep ==
    \/ \E p \in MousePoints : handleMouseMove(p.x, p.y)
    \/ \E position \in ClickPositions : handleGameClick(position)
    \/ \E insideMenu \in BOOLEAN : handleClick(insideMenu)
    \/ Trim(text) # "" /\ createMessage
    \/ \E content \in Texts \ {""} : sendMessage(content)

\* C21: every mouse move, click or sent message of the logged-in user sets
\* that user's lastActive in the spatial store to the time of the interaction.
C21_InteractionSetsLastActive ==
    [][(GameShown /\ Has(spatialStore, currentUser) /\ InteractionStep)
          => Get(spatialStore', currentUser).lastActive = now]_vars

(***************************************************************************)
(* Claims about init() and createUser.                                     *)
(***************************************************************************)
\* C22: when init() fails, it redirects to the login page exactly for a
\* login-required error, the error reaches the caller of init(), and the
\* application does not become ready.
C22_FailedInitNeverReady ==
    /\ [][(initStage # "rejected" /\ initStage' = "rejected")
             => /\ threw' \in {"LoginRequiredError", "Error"}
                /\ redirected' <=> threw' = "LoginRequiredError"]_vars
    /\ [](initStage = "rejected" => ~ready)

\* a call of createUser that reaches the document-sync connection: a name
\* that is not blank, cloudAuthUser not in the list and the name not found
SyncFails(username, id) ==
    /\ createUser(username, id)
    /\ Trim(username) # ""
    /\ SyncOutcome(users', usernames', username) = "ReferenceError"

\* C23: a document-sync connection failure during user creation is caught, sets
\* connectionError and leaves the new user the current user, in the users
\* list and in the spatial store.
C23_SyncFailureKeepsSession ==
    [][\A username \in Usernames, id \in AppUserIds :
          SyncFails(username, id)
             => /\ connectionError'
                /\ threw' = ""
                /\ currentUser' = id
                /\ Includes(users', id)
                /\ Has(spatialStore', id)]_vars

\* C23 witness: the user u1 was created under the name " bob", the
\* connection failed and u1 is the current user in local-only mode
C23_Witness ==
    /\ connectionError
    /\ currentUser = "u1"
    /\ Has(usernames, "u1") /\ Get(usernames, "u1") = "bob"
    /\ Has(spatialStore, "u1")

\* a call of createUser with the name another user of the list has
NameCollision(username, id) ==
    /\ createUser(username, id)
    /\ Trim(username) # ""
    /\ NameTaken(users, usernames, Trim(username))

\* C24: createUser with a name that another user has taken reports the
\* collision by an alert.
C24_CollisionAlerts ==
    [][\A username \in Usernames, id \in AppUserIds :
          NameCollision(username, id) => alerts' = alerts + 1]_vars

(***************************************************************************)
(* Claims about the functions of angles.                                   *)
(***************************************************************************)
\* C25: normalizeAngle returns an angle of the half-open interval (-pi, pi]
\* that differs from its argument by a whole number of turns.
C25_NormalizedIntoHalfOpenTurn ==
    lastCall.fn = "normalizeAngle"
       => /\ -PI < lastCall.result /\ lastCall.result <= PI
          /\ (lastCall.result - lastCall.angle) % (2 * PI) = 0

\* the absolute value
Abs(n) == IF n < 0 THEN -n ELSE n

\* C26: lerpPolar moves the angle along the shorter arc: the angle it returns
\* is away from the normalised start by t times a difference of at most pi,
\* and halfway from pi - 1 to -pi + 1 it is pi or -pi.
C26_LerpTakesShortArc ==
    lastCall.fn = "lerpPolar"
       => /\ Abs(lastCall.result.theta.num
                   - normalizeAngle(lastCall.start.theta) * lastCall.t.den)
                <= PI * lastCall.t.num
          /\ (/\ lastCall.start.theta = PI - 1
              /\ lastCall.end.theta = -PI + 1
              /\ lastCall.t = [num |-> 1, den |-> 2])
                => Abs(lastCall.result.theta.num) = PI * lastCall.result.theta.den

\* C26 witness: lerpPolar was called halfway from pi - 1 to -pi + 1 and
\* returned the angle pi
C26_Witness ==
    /\ lastCall.fn = "lerpPolar"
    /\ lastCall.start.theta = PI - 1
    /\ lastCall.end.theta = -PI + 1
    /\ lastCall.t = [num |-> 1, den |-> 2]
    /\ lastCall.result.theta = [num |-> 2 * PI, den |-> 2]

C28_OneCreateCallPerItem ==
    /\ Len(keyforge.onItemCreate) = Len(keyforge.items)
    /\ \A i \in 1..Len(keyforge.items) :
          keyforge.onItemCreate[i].id = keyforge.items[i].id

\* C28 witness: a lock, its matching key and one more key were created, and
\* an item has been moved away from where it was created
C28_Witness ==
    /\ Len(keyforge.items) = 3
    /\ \E i, j \in 1..3 : /\ keyforge.items[i].type = "lock"
                           /\ keyforge.items[j].type = "key"
                           /\ keyforge.items[i].data = keyforge.items[j].data
    /\ \E i \in 1..3 : keyforge.items[i] # keyforge.onItemCreate[i]

(***************************************************************************)
(* Claims about the mouse-distance widget.                                 *)
(***************************************************************************)
\* C29: once the widget is destroyed, its two intervals are cleared and its
\* mousemove listener is removed, and no callback changes its state again.
C29_DestroyedWidgetIsQuiet ==
    /\ [](mouseDistance.state = "destroyed"
             => /\ ~mouseDistance.motionInterval
                /\ ~mouseDistance.averageInterval
                /\ ~mouseDistance.listener)
    /\ [][mouseDistance.state = "destroyed" => mouseDistance' = mouseDistance]_vars

\* C29 witness: the widget was destroyed after its listener and both of its
\* intervals had run
C29_Witness ==
    /\ mouseDistance.state = "destroyed"
    /\ mouseDistance.cumulativeMovement > 0
    /\ mouseDistance.lastMotion > 0
    /\ mouseDistance.averageMotion.num > 0

(***************************************************************************)
(* Claims about the debug timeline.                                        *)
(***************************************************************************)
\* C30: the timeline holds the events logged last, 100 of them at most, in
\* the order they were logged in.
C30_TimelineKeepsLastHundred ==
    /\ Len(debugTimeline) <= TIMELINE_KEEP + 1
    /\ Len(debugTimeline) = IF eventsLogged <= TIMELINE_KEEP + 1
                            THEN eventsLogged ELSE TIMELINE_KEEP + 1
    /\ \A i \in 1..Len(debugTimeline) :
          debugTimeline[i].id = eventsLogged - Len(debugTimeline) + i

\* C30 witness: more than 100 events were logged, and the timeline starts
\* with the 100th from the end
C30_Witness ==
    /\ eventsLogged > TIMELINE_KEEP + 1
    /\ Len(debugTimeline) = TIMELINE_KEEP + 1
    /\ debugTimeline[1].id = eventsLogged - TIMELINE_KEEP

(***************************************************************************)
(* Claims about the rings of the App component.                            *)
(***************************************************************************)
\* the pending timeouts of App.svelte addClickRing, in the order they were set
AppRingTimeouts ==
    LET ofApp(t) == t.store = "App" IN SelectSeq(ringTimeouts, ofApp)

\* C31: the rings of the App component are as many as its removal timeouts
\* that are pending, and the ring at each place of the list is the one that
\* the timeout at that place was set for.
C31_RingsMatchPendingRemovals ==
    /\ Len(clickRings) = Len(AppRingTimeouts)
    /\ \A i \in 1..Len(clickRings) :
          clickRings[i].timestamp + RING_TIMEOUT = AppRingTimeouts[i].due

\* C31 witness: of two rings added at different times the first has been
\* removed by its timeout, and the second is left with its timeout pending
C31_Witness ==
    /\ Len(clickRings) = 1
    /\ clickRings[1].timestamp > 0
    /\ now >= RING_TIMEOUT
    /\ Len(AppRingTimeouts) = 1

(***************************************************************************)
(* Claims about the connected users.                                       *)
(***************************************************************************)
\* the list has an entry of the id
Connected(userId) == \E i \in 1..Len(connectedUsers) : connectedUsers[i].id = userId

C33_RenderingsAgree ==
    [][AppSpatialStep =>
         (\A userId \in UserIds :
             userDisplayClass(userId) = "cohered" <=> isUserCohered(userId))']_vars

(***************************************************************************)
(* Claims about UserAuth.svelte.                                           *)
(***************************************************************************)
\* C34: the document has one user per verified id at most; a submission of
\* a verified id that is registered leaves the document as it is, and a
\* submission of a blank name changes nothing.
C34_OneDocumentUserPerAccount ==
    /\ [](\A i, j \in 1..Len(doc.users) : doc.users[i] = doc.users[j] => i = j)
    /\ [][\A input \in AuthInputs, outcome \in AwaitOutcomes,
            verified \in DocUserIds \cup {NoUser} :
             UserAuth_createUser(input, outcome, verified)
                => /\ Includes(doc.users, verified) => doc' = doc
                   /\ ToLowerCase(Trim(input)) = ""
                         => doc' = doc /\ redirected' = redirected /\ usernames' = usernames]_vars

\* C34 witness: the verified account registered as "dee" in a document that
\* has another user
C34_Witness ==
    /\ Len(doc.users) = 2
    /\ Includes(doc.users, CloudAuthUser)
    /\ Has(usernames, CloudAuthUser) /\ Get(usernames, CloudAuthUser) = "dee"

(***************************************************************************)
(* Claims about the creation of users and the entries of the spatial       *)
(* store.                                                                  *)
(***************************************************************************)
\* a call of createUser with a trimmed name that no user of the list has
FreshName(username, id) ==
    /\ createUser(username, id)
    /\ username # "" /\ Trim(username) = username
    /\ ~NameTaken(users, usernames, username)

\* C35: createUser with a trimmed name that no other user has does not end
\* with 'Username already taken' and leaves connectionError false.
C35_FreshNameIsNoCollision ==
    [][\A username \in Usernames, id \in AppUserIds :
          FreshName(username, id)
             => /\ SyncOutcome(users', usernames', username) # "Username already taken"
                /\ ~connectionError => ~connectionError']_vars

\* C36: every entry of the spatial store has its position, lastActive and
\* cohered defined, and no call of updateUserActivity or
\* handleWebSocketConnection ends with an error, a call for a user id that
\* has no entry included.
C36_EntriesAreComplete ==
    /\ \A i \in 1..Len(spatialStore) :
          {"position", "lastActive", "cohered"} \subseteq DOMAIN spatialStore[i].st
    /\ threw # "TypeError"

(***************************************************************************)
(* Claims about the sending of messages.                                   *)
(***************************************************************************)
\* C37: createMessage of the App component and sendMessage of the Chat
\* component change nothing of the message list, the input and the sender's
\* entry of the spatial store when there is no user or the text is blank;
\* otherwise they append one message that has the trimmed text and clear
\* the input.
C37_BlankSendIsNoOp ==
    /\ [][createMessage =>
             IF currentUser = NoUser \/ Trim(text) = ""
             THEN messages' = messages /\ text' = text /\ spatialStore' = spatialStore
             ELSE /\ Len(messages') = Len(messages) + 1
                  /\ SubSeq(messages', 1, Len(messages)) = messages
                  /\ messages'[Len(messages')].text = Trim(text)
                  /\ Trim(messages'[Len(messages')].text) = messages'[Len(messages')].text
                  /\ text' = ""]_vars
    /\ [][Chat_sendMessage =>
             IF chat.user = NoUser \/ Trim(chat.text) = ""
             THEN chat' = chat /\ spatialStore' = spatialStore
             ELSE /\ Len(chat.messages') = Len(chat.messages) + 1
                  /\ SubSeq(chat.messages', 1, Len(chat.messages)) = chat.messages
                  /\ chat.messages'[Len(chat.messages')].text = Trim(chat.text)
                  /\ chat.text' = ""]_vars

\* C37 witness: both components hold the message "hi", sent as " hi", with
\* their inputs cleared, and a blank text is in the App component's input
\* after a send that did nothing
C37_Witness ==
    /\ Len(messages) = 1 /\ messages[1].text = "hi"
    /\ Len(chat.messages) = 1 /\ chat.messages[1].text = "hi"
    /\ chat.text = "" /\ text = " "
    /\ currentUser # NoUser

(***************************************************************************)
(* Claims about what the coherence sweep leaves alone.                     *)
(***************************************************************************)
\* C38: a coherence sweep adds and removes no user, changes of an entry its
\* cohered flag and its position only, lastActive never, and leaves the
\* position of every user whose idle time, at the time read for the user, is
\* less than COHERENCE_TIMEOUT as it is.
C38_SweepTouchesFlagsAndIdlePositions ==
    [][SweepStep =>
         /\ Len(spatialStore') = Len(spatialStore)
         /\ \A i \in 1..Len(spatialStore) :
               LET old == spatialStore[i].st
                   new == spatialStore'[i].st
               IN  /\ spatialStore'[i].id = spatialStore[i].id
                   /\ Without(Without(new, "cohered"), "position")
                         = Without(Without(old, "cohered"), "position")
                   /\ ActiveWithin(old, sweepReads'[i], COHERENCE_TIMEOUT)
                         => /\ ("position" \in DOMAIN new) = ("position" \in DOMAIN old)
                            /\ "position" \in DOMAIN old => new.position = old.position]_vars

\* C38 witness: a sweep of two users has left one, active, where the
\* pointer put it, and marked the other, idle for the timeout, decohered
C38_Witness ==
    /\ Len(sweepReads) = 2
    /\ \E i, j \in 1..2 :
          /\ i # j
          /\ ActiveWithin(Spatial(i), sweepReads[i], COHERENCE_TIMEOUT)
          /\ Spatial(i).cohered /\ ~IsOrigin(Spatial(i).position)
          /\ "lastActive" \in DOMAIN Spatial(j)
          /\ ~ActiveWithin(Spatial(j), sweepReads[j], COHERENCE_TIMEOUT)
          /\ ~Spatial(j).cohered

(***************************************************************************)
(* Claims about the status message of the Keyforge widget.                 *)
(***************************************************************************)
\* C39: a status message stays displayed until the timeout of the call of
\* showStatus that set it fires: the timeout of an earlier call, which fires
\* while the one of the latest call is pending (all last 2000 ms, so they
\* fire in the order of the calls), leaves the message displayed.
C39_TimerClearsOwnMessageOnly ==
    [][(StatusTimeoutFires /\ keyforge.statusTimeouts > 1)
          => keyforge.statusMessage' = keyforge.statusMessage]_vars

====
